---- MODULE Spec2Model ----
(***************************************************************************)
(* A model of the booking engine of the easyfitness WhatsApp assistant:    *)
(*   - services/booking_service.py  (BookingService: the two booking      *)
(*     flows against the MagicLine provider),                              *)
(*   - api/routes.py                (_handle_text_message and              *)
(*     _handle_booking_if_needed),                                         *)
(*   - services/customer_service.py (CustomerService: the profile store), *)
(*   - utils/text_parser.py, constants.py (helpers).                       *)
(*                                                                         *)
(* Every provider request is one step of the model: the step draws the     *)
(* provider's answer and runs the code up to the next request or return.   *)
(***************************************************************************)
EXTENDS Integers, Sequences, FiniteSets, TLC

\* ------------------------------------------------------------------ values

\* Python's None for string-like values; an absent date or time (a date is
\* <<year, month, day>>, a time is <<hour, minute>>).
None == "None"
NoDate == <<>>
NoTime == <<>>

\* ------------------------------------------------------------------ bounds

\* The longest day-slots list the provider answers with.
MaxSlots == 2

\* The number of inbound messages handled in one behaviour.
MaxTurns == 2

\* ------------------------------------------------- program constants

\* duration_minutes: int = 30 (default of every booking method).
DefaultDuration == 30

\* max_alternatives=3 in check_slot_availability.
MaxAlternatives == 3

\* ----------------------------------------------------------- input domains

\* A start_datetime argument.  shape tells how the string reads:
\*   "iso"     YYYY-MM-DDTHH:MM:SS+HH:MM  (what build_datetime_iso writes)
\*   "isoNoTz" YYYY-MM-DDTHH:MM:SS        (no offset)
\*   "noSec"   YYYY-MM-DDTHH:MM           (a T, but not the regex of
\*                                          _calculate_end_time)
\*   "noT"     YYYY-MM-DD HH:MM           (no T separator)
\*   "empty"   the empty string
\* date and time are the digits written in the string; they need not be a
\* calendar date (2026-02-31 is what extract_date_only returns for
\* "31.02.2026").
GoodDate == <<2026, 1, 20>>
BadDate == <<2026, 2, 31>>
T1200 == <<12, 0>>
T1400 == <<14, 0>>

Shapes == {"iso", "isoNoTz", "noSec", "noT"}

EmptyDatetime == [shape |-> "empty", date |-> NoDate, time |-> NoTime]

StartDatetimes ==
    [shape : Shapes, date : {GoodDate, BadDate}, time : {T1200, T1400}]
        \cup {EmptyDatetime}

\* The start times of the slots of a day-slots answer; NoTime is a slot
\* object without a start field.
SlotStarts == {<<10, 0>>, <<11, 0>>, <<14, 0>>, NoTime}

RECURSIVE SeqsUpTo(_, _)
SeqsUpTo(S, n) ==
    IF n = 0 THEN {<<>>}
    ELSE LET shorter == SeqsUpTo(S, n - 1)
         IN shorter \cup {Append(s, x) : s \in {t \in shorter : Len(t) = n - 1}, x \in S}

SlotLists ==
    {[i \in 1..Len(s) |-> [startDateTime |-> s[i]]] : s \in SeqsUpTo(SlotStarts, MaxSlots)}

\* A provider answer.  kind "net" is a requests.RequestException (timeout,
\* connection failure); kind "http" carries a status code and a JSON object
\* body.  The body fields an endpoint does not read stay at their defaults:
\*   success          "absent", or the value of a "success" key of the body
\*                      (it overrides the code's own key in {"success": True, **body})
\*   validationStatus None when the body has no such key
\*   leadCustomerId, bookingId  None when the body has no such key
\*   slots            the list of a day-slots answer
Resp(kind, status, success, validationStatus, leadCustomerId, bookingId, slots) ==
    [kind |-> kind, status |-> status, success |-> success,
     validationStatus |-> validationStatus, leadCustomerId |-> leadCustomerId,
     bookingId |-> bookingId, slots |-> slots]

NetError == Resp("net", 0, "absent", None, None, None, <<>>)

ErrorStatuses == {400, 404, 500, 503}

HttpError(status) == Resp("http", status, "absent", None, None, None, <<>>)

SlotsResponses ==
    {NetError} \cup {HttpError(s) : s \in ErrorStatuses}
        \cup {Resp("http", 200, "absent", None, None, None, sl) : sl \in SlotLists}

ValidationResponses ==
    {NetError}
        \cup {Resp("http", s, "absent", v, None, None, <<>>) :
                s \in {200, 500}, v \in {"AVAILABLE", "NOT_AVAILABLE", None}}
        \cup {Resp("http", 200, "false", "AVAILABLE", None, None, <<>>)}

BookingResponses ==
    {NetError} \cup {HttpError(s) : s \in ErrorStatuses}
        \cup {Resp("http", 200, su, None, None, b, <<>>) :
                su \in {"absent", "false"}, b \in {None, "1234567890"}}

LeadValidationResponses ==
    {NetError} \cup {HttpError(s) : s \in ErrorStatuses \cup {201}}
        \cup {Resp("http", 200, su, None, None, None, <<>>) : su \in {"absent", "false"}}

LeadCreationResponses ==
    {NetError} \cup {HttpError(s) : s \in ErrorStatuses \cup {201}}
        \cup {Resp("http", 200, su, None, l, None, <<>>) :
                su \in {"absent", "false"}, l \in {None, "0", "67890"}}

\* ------------------------------------------------------------ BotMessages

Message(id, alts) == [id |-> id, alts |-> alts]

NoMessage == Message("none", <<>>)
BOOKING_SUCCESS == Message("BOOKING_SUCCESS", <<>>)
BOOKING_SLOT_UNAVAILABLE == Message("BOOKING_SLOT_UNAVAILABLE", <<>>)
BOOKING_GENERIC_ERROR == Message("BOOKING_GENERIC_ERROR", <<>>)
BOOKING_VALIDATION_FAILED == Message("BOOKING_VALIDATION_FAILED", <<>>)
BOOKING_LEAD_CREATION_FAILED == Message("BOOKING_LEAD_CREATION_FAILED", <<>>)
BOOKING_SERVER_ERROR == Message("BOOKING_SERVER_ERROR", <<>>)
BOOKING_NETWORK_ERROR == Message("BOOKING_NETWORK_ERROR", <<>>)

\* "Diese Zeit ist leider belegt. ..." naming the alternatives in order.
slot_unavailable_with_alternatives(alternatives) ==
    IF alternatives = <<>> THEN BOOKING_SLOT_UNAVAILABLE
    ELSE Message("SLOT_UNAVAILABLE_WITH_ALTERNATIVES", alternatives)

\* --------------------------------------------- BookingService: pure helpers

Min(a, b) == IF a <= b THEN a ELSE b

\* iso_datetime[:10], None for a falsy argument.
_extract_date_from_datetime(iso_datetime) ==
    IF iso_datetime.shape = "empty" THEN NoDate ELSE iso_datetime.date

\* The first five characters after the T separator; None without a T or
\* for a falsy argument. Behind "YYYY-MM-DDTHH:MM:SS" they are HH:MM; behind
\* an hour written with one digit ("isoH": "YYYY-MM-DDTH:MM:SS") they are
\* H:MM and the colon that follows.
_extract_time_from_datetime(iso_datetime) ==
    IF iso_datetime.shape \in {"empty", "noT"} THEN NoTime
    ELSE IF iso_datetime.shape = "isoH"
    THEN <<iso_datetime.time[1], iso_datetime.time[2], ":">>
    ELSE iso_datetime.time

\* int(hours) * 60 + int(minutes) of the first two parts between colons.
_time_to_minutes(time_str) == time_str[1] * 60 + time_str[2]

_is_slot_in_list(target_datetime, slots) ==
    IF target_datetime.shape = "empty" \/ slots = <<>> THEN FALSE
    ELSE LET target_time == _extract_time_from_datetime(target_datetime)
         IN IF target_time = NoTime THEN FALSE
            ELSE \E i \in 1..Len(slots) :
                    /\ slots[i].startDateTime # NoTime
                    /\ slots[i].startDateTime = target_time

\* list.sort(key=distance) is stable: an element goes behind every element
\* whose distance is not larger.
RECURSIVE InsertByDistance(_, _, _)
InsertByDistance(sorted, slot_time, target_minutes) ==
    LET distance(t) == IF _time_to_minutes(t) >= target_minutes
                       THEN _time_to_minutes(t) - target_minutes
                       ELSE target_minutes - _time_to_minutes(t)
    IN IF sorted = <<>> THEN <<slot_time>>
       ELSE IF distance(sorted[Len(sorted)]) <= distance(slot_time)
            THEN Append(sorted, slot_time)
            ELSE Append(InsertByDistance(SubSeq(sorted, 1, Len(sorted) - 1),
                                         slot_time, target_minutes),
                        sorted[Len(sorted)])

RECURSIVE SortByDistance(_, _)
SortByDistance(times, target_minutes) ==
    IF times = <<>> THEN <<>>
    ELSE InsertByDistance(SortByDistance(SubSeq(times, 1, Len(times) - 1), target_minutes),
                          times[Len(times)], target_minutes)

\* The start times of the slots that have one, in list order.
RECURSIVE SlotTimes(_)
SlotTimes(slots) ==
    IF slots = <<>> THEN <<>>
    ELSE LET rest == SlotTimes(SubSeq(slots, 1, Len(slots) - 1))
             last == slots[Len(slots)].startDateTime
         IN IF last = NoTime THEN rest ELSE Append(rest, last)

_get_alternative_slots(target_datetime, slots, max_alternatives) ==
    IF slots = <<>> THEN <<>>
    ELSE LET target_time == _extract_time_from_datetime(target_datetime)
         IN IF target_time = NoTime
            THEN SlotTimes(SubSeq(slots, 1, Min(max_alternatives, Len(slots))))
            ELSE LET sorted == SortByDistance(SlotTimes(slots), _time_to_minutes(target_time))
                 IN SubSeq(sorted, 1, Min(max_alternatives, Len(sorted)))

\* datetime.strptime accepts the digits only when they are a calendar date
\* and a time of day.
IsLeap(y) == (y % 4 = 0 /\ y % 100 # 0) \/ y % 400 = 0

DaysInMonth(y, m) ==
    IF m = 2 THEN (IF IsLeap(y) THEN 29 ELSE 28)
    ELSE IF m \in {4, 6, 9, 11} THEN 30 ELSE 31

IsCalendar(date, time) ==
    /\ date[1] >= 1
    /\ date[2] \in 1..12
    /\ date[3] \in 1..DaysInMonth(date[1], date[2])
    /\ time[1] \in 0..23
    /\ time[2] \in 0..59

NextDay(date) ==
    IF date[3] < DaysInMonth(date[1], date[2]) THEN <<date[1], date[2], date[3] + 1>>
    ELSE IF date[2] < 12 THEN <<date[1], date[2] + 1, 1>>
    ELSE <<date[1] + 1, 1, 1>>

RECURSIVE AddDays(_, _)
AddDays(date, n) == IF n = 0 THEN date ELSE AddDays(NextDay(date), n - 1)

\* Returns [raised, value]: the input unchanged when the regex does not
\* match; a ValueError of strptime when the digits are no calendar date; else
\* the start advanced by duration_minutes, with the offset kept ("+01:00"
\* written when the input has none, which turns shape isoNoTz into iso).
_calculate_end_time(start_datetime, duration_minutes) ==
    IF start_datetime.shape \notin {"iso", "isoNoTz"}
    THEN [raised |-> FALSE, value |-> start_datetime]
    ELSE IF ~IsCalendar(start_datetime.date, start_datetime.time)
    THEN [raised |-> TRUE, value |-> start_datetime]
    ELSE LET total == _time_to_minutes(start_datetime.time) + duration_minutes
         IN [raised |-> FALSE,
             value |-> [shape |-> "iso",
                        date |-> AddDays(start_datetime.date, total \div 1440),
                        time |-> <<(total \div 60) % 24, total % 60>>]]

\* ------------------------------- BookingService: one request, one answer

\* Python truthiness of a value read from a JSON body.
Truthy(v) == v \notin {None, "0", "false", "absent"}

\* {"success": True, **response.json()}: a "success" key of the body wins.
MergedSuccess(response) ==
    IF response.success = "absent" THEN TRUE ELSE Truthy(response.success)

\* response.json() whatever the status; the error shape on a RequestException.
validate_slot(response) ==
    IF response.kind = "net" THEN [validationStatus |-> "ERROR"]
    ELSE [validationStatus |-> response.validationStatus]

book_appointment(response) ==
    IF response.kind = "net" THEN [success |-> FALSE, bookingId |-> None]
    ELSE IF response.status = 200
    THEN [success |-> MergedSuccess(response), bookingId |-> response.bookingId]
    ELSE [success |-> FALSE, bookingId |-> None]

get_available_slots(response) ==
    IF response.kind = "net" THEN [success |-> FALSE, slots |-> <<>>]
    ELSE IF response.status = 200 THEN [success |-> TRUE, slots |-> response.slots]
    ELSE [success |-> FALSE, slots |-> <<>>]

\* Fault seeding: a pre-check that reports a failed slots request as "no
\* slot" instead of as an API error.
check_slot_availability_blocking(start_datetime, slots_response) ==
    IF ~slots_response.success \/ slots_response.slots = <<>>
    THEN [available |-> FALSE, alternatives |-> <<>>, api_error |-> FALSE]
    ELSE IF _is_slot_in_list(start_datetime, slots_response.slots)
    THEN [available |-> TRUE, alternatives |-> <<>>, api_error |-> FALSE]
    ELSE [available |-> FALSE,
          alternatives |-> _get_alternative_slots(start_datetime, slots_response.slots,
                                                  MaxAlternatives),
          api_error |-> FALSE]

\* The part of check_slot_availability behind the slots request.
check_slot_availability(start_datetime, slots_response) ==
    IF ~slots_response.success
    THEN [available |-> FALSE, alternatives |-> <<>>, api_error |-> TRUE]
    ELSE IF slots_response.slots = <<>>
    THEN [available |-> FALSE, alternatives |-> <<>>, api_error |-> FALSE]
    ELSE IF _is_slot_in_list(start_datetime, slots_response.slots)
    THEN [available |-> TRUE, alternatives |-> <<>>, api_error |-> FALSE]
    ELSE [available |-> FALSE,
          alternatives |-> _get_alternative_slots(start_datetime, slots_response.slots,
                                                  MaxAlternatives),
          api_error |-> FALSE]

\* check_slot_availability when the date cannot be extracted: no request.
InvalidDatetimeCheck == [available |-> FALSE, alternatives |-> <<>>, api_error |-> TRUE]

validate_lead(response) ==
    IF response.kind = "net"
    THEN [success |-> FALSE, status_code |-> 0, is_network_error |-> TRUE]
    ELSE IF response.status = 200
    THEN [success |-> MergedSuccess(response), status_code |-> 200, is_network_error |-> FALSE]
    ELSE [success |-> FALSE, status_code |-> response.status, is_network_error |-> FALSE]

create_lead(response) ==
    IF response.kind = "net"
    THEN [success |-> FALSE, status_code |-> 0, is_network_error |-> TRUE,
          leadCustomerId |-> None]
    ELSE IF response.status = 200
    THEN [success |-> MergedSuccess(response), status_code |-> 200,
          is_network_error |-> FALSE, leadCustomerId |-> response.leadCustomerId]
    ELSE [success |-> FALSE, status_code |-> response.status, is_network_error |-> FALSE,
          leadCustomerId |-> None]

validate_appointment_for_lead(response) ==
    IF response.kind = "net" THEN [success |-> FALSE, validationStatus |-> None]
    ELSE IF response.status = 200
    THEN [success |-> MergedSuccess(response), validationStatus |-> response.validationStatus]
    ELSE [success |-> FALSE, validationStatus |-> None]

book_appointment_for_lead(response) ==
    IF response.kind = "net" THEN [success |-> FALSE, bookingId |-> None]
    ELSE IF response.status = 200
    THEN [success |-> MergedSuccess(response), bookingId |-> response.bookingId]
    ELSE [success |-> FALSE, bookingId |-> None]

\* ------------------------- try_book / try_book_trial_offer: the decisions

\* What a piece of a flow does: return a tuple, raise, or go on (ret FALSE).
Return(success, message, booking_id) ==
    [ret |-> TRUE, raised |-> FALSE, success |-> success, message |-> message,
     booking_id |-> booking_id]

Raised == [ret |-> TRUE, raised |-> TRUE, success |-> FALSE, message |-> NoMessage,
           booking_id |-> None]

Continue == [ret |-> FALSE, raised |-> FALSE, success |-> FALSE, message |-> NoMessage,
             booking_id |-> None]

\* Fault seeding: a validation check that only stops at "NOT_AVAILABLE".
after_validate_slot_blacklist(validation) ==
    IF validation.validationStatus = "NOT_AVAILABLE"
    THEN Return(FALSE, BOOKING_SLOT_UNAVAILABLE, None)
    ELSE Continue

\* try_book after validate_slot.
after_validate_slot(validation) ==
    IF validation.validationStatus # "AVAILABLE"
    THEN Return(FALSE, BOOKING_SLOT_UNAVAILABLE, None)
    ELSE Continue

\* try_book after book_appointment.
after_book_appointment(booking) ==
    IF booking.success THEN Return(TRUE, BOOKING_SUCCESS, booking.bookingId)
    ELSE Return(FALSE, BOOKING_GENERIC_ERROR, None)

\* Fault seeding: a pre-check that returns early only when it has
\* alternatives to offer.
after_slot_check_alternatives_only(slot_check) ==
    IF ~slot_check.api_error /\ ~slot_check.available /\ slot_check.alternatives # <<>>
    THEN Return(FALSE, slot_unavailable_with_alternatives(slot_check.alternatives), None)
    ELSE Continue

\* try_book_trial_offer, step 0: the early return of the pre-check.
after_slot_check(slot_check) ==
    IF ~slot_check.api_error
    THEN IF ~slot_check.available
         THEN IF slot_check.alternatives # <<>>
              THEN Return(FALSE, slot_unavailable_with_alternatives(slot_check.alternatives),
                          None)
              ELSE Return(FALSE, BOOKING_SLOT_UNAVAILABLE, None)
         ELSE Continue
    ELSE Continue

\* Fault seeding: step 1 with the server-error class starting above 500.
after_validate_lead_above_500(lead_validation) ==
    IF ~lead_validation.success
    THEN IF lead_validation.is_network_error THEN Return(FALSE, BOOKING_NETWORK_ERROR, None)
         ELSE IF lead_validation.status_code > 500
         THEN Return(FALSE, BOOKING_SERVER_ERROR, None)
         ELSE Return(FALSE, BOOKING_VALIDATION_FAILED, None)
    ELSE Continue

\* Step 1.
after_validate_lead(lead_validation) ==
    IF ~lead_validation.success
    THEN IF lead_validation.is_network_error THEN Return(FALSE, BOOKING_NETWORK_ERROR, None)
         ELSE IF lead_validation.status_code >= 500
         THEN Return(FALSE, BOOKING_SERVER_ERROR, None)
         ELSE Return(FALSE, BOOKING_VALIDATION_FAILED, None)
    ELSE Continue

\* Fault seeding: step 2 without the check of leadCustomerId.
after_create_lead_without_id_check(lead_creation) ==
    IF ~lead_creation.success
    THEN IF lead_creation.is_network_error THEN Return(FALSE, BOOKING_NETWORK_ERROR, None)
         ELSE IF lead_creation.status_code >= 500
         THEN Return(FALSE, BOOKING_SERVER_ERROR, None)
         ELSE Return(FALSE, BOOKING_LEAD_CREATION_FAILED, None)
    ELSE Continue

\* Step 2.
after_create_lead(lead_creation) ==
    IF ~lead_creation.success
    THEN IF lead_creation.is_network_error THEN Return(FALSE, BOOKING_NETWORK_ERROR, None)
         ELSE IF lead_creation.status_code >= 500
         THEN Return(FALSE, BOOKING_SERVER_ERROR, None)
         ELSE Return(FALSE, BOOKING_LEAD_CREATION_FAILED, None)
    ELSE IF ~Truthy(lead_creation.leadCustomerId)
    THEN Return(FALSE, BOOKING_LEAD_CREATION_FAILED, None)
    ELSE Continue

\* Fault seeding: step 3 without the check of validationStatus.
after_validate_appointment_any_status(booking_validation) ==
    IF ~booking_validation.success THEN Return(FALSE, BOOKING_SLOT_UNAVAILABLE, None)
    ELSE Continue

\* Step 3.
after_validate_appointment(booking_validation) ==
    IF ~booking_validation.success THEN Return(FALSE, BOOKING_SLOT_UNAVAILABLE, None)
    ELSE IF booking_validation.validationStatus # "AVAILABLE"
    THEN Return(FALSE, BOOKING_SLOT_UNAVAILABLE, None)
    ELSE Continue

\* Step 4.
after_book_for_lead(booking) ==
    IF booking.success THEN Return(TRUE, BOOKING_SUCCESS, booking.bookingId)
    ELSE Return(FALSE, BOOKING_GENERIC_ERROR, None)

\* The payload of a request that carries an end time is built before the
\* request: _calculate_end_time may raise there.
end_time_raises(start_datetime) ==
    _calculate_end_time(start_datetime, DefaultDuration).raised

\* Steps 1 to 4 of try_book_trial_offer taken alone: what the sequence does
\* with the answer to the request of one of its steps.
legacy_four_steps(step, response, start) ==
    IF step = "validate_lead" THEN after_validate_lead(validate_lead(response))
    ELSE IF step = "create_lead"
    THEN LET decision == after_create_lead(create_lead(response))
         IN IF ~decision.ret /\ end_time_raises(start) THEN Raised ELSE decision
    ELSE IF step = "validate_appointment_for_lead"
    THEN after_validate_appointment(validate_appointment_for_lead(response))
    ELSE after_book_for_lead(book_appointment_for_lead(response))

\* ------------------------------------------------------------------- state

VARIABLES
    pc,              \* where the running booking flow stands ("idle": none)
    flow,            \* "try_book", "try_book_trial_offer" or "none"
    start_datetime,  \* the start_datetime argument of the running flow
    calls,           \* the endpoints the flow has requested, in order
    answer,          \* the provider's answer to the last request
    slot_check,      \* the dict check_slot_availability returned
    result           \* what the flow returned (ret TRUE) or raised

flow_vars == <<pc, flow, start_datetime, calls, answer, slot_check, result>>

NoSlotCheck == [available |-> FALSE, alternatives |-> <<>>, api_error |-> FALSE]

\* No request sent yet.
NoAnswer == Resp("none", 0, "absent", None, None, None, <<>>)

\* Fault seeding: a step that failed is tried again (up to six requests).
Proceed_retrying(decision, next_pc) ==
    IF decision.ret /\ ~decision.raised /\ ~decision.success /\ Len(calls) < 6
    THEN pc' = pc /\ result' = Continue
    ELSE IF decision.ret
    THEN pc' = "returned" /\ result' = decision
    ELSE pc' = next_pc /\ result' = Continue

\* The flow ends with what a decision returned, or goes on at next_pc.
Proceed(decision, next_pc) ==
    IF decision.ret
    THEN pc' = "returned" /\ result' = decision
    ELSE pc' = next_pc /\ result' = Continue

\* ------------------------------------------------------ try_book, by steps

\* try_book up to the validate request: validate_slot builds its payload,
\* end time included, before it sends anything.
EnterTryBook(start) ==
    /\ flow' = "try_book"
    /\ start_datetime' = start
    /\ calls' = <<>>
    /\ answer' = NoAnswer
    /\ slot_check' = NoSlotCheck
    /\ Proceed(IF end_time_raises(start) THEN Raised ELSE Continue, "validate_slot")

StepValidateSlot ==
    /\ pc = "validate_slot"
    /\ \E response \in ValidationResponses :
        /\ calls' = Append(calls, "validate_slot")
        /\ answer' = response
        /\ Proceed(after_validate_slot(validate_slot(response)), "book_appointment")
    /\ UNCHANGED <<flow, start_datetime, slot_check>>

StepBookAppointment ==
    /\ pc = "book_appointment"
    /\ \E response \in BookingResponses :
        /\ calls' = Append(calls, "book_appointment")
        /\ answer' = response
        /\ Proceed(after_book_appointment(book_appointment(response)), "returned")
    /\ UNCHANGED <<flow, start_datetime, slot_check>>

\* ------------------------------------------ try_book_trial_offer, by steps

\* try_book_trial_offer up to its first request: the slots GET, or, when no
\* date can be cut from start_datetime, the lead validation.
EnterTryBookTrialOffer(start) ==
    /\ flow' = "try_book_trial_offer"
    /\ start_datetime' = start
    /\ calls' = <<>>
    /\ answer' = NoAnswer
    /\ IF _extract_date_from_datetime(start) = NoDate
       THEN /\ slot_check' = InvalidDatetimeCheck
            /\ Proceed(after_slot_check(InvalidDatetimeCheck), "validate_lead")
       ELSE /\ slot_check' = NoSlotCheck
            /\ Proceed(Continue, "get_available_slots")

StepGetAvailableSlots ==
    /\ pc = "get_available_slots"
    /\ \E response \in SlotsResponses :
        LET check == check_slot_availability(start_datetime, get_available_slots(response))
        IN /\ calls' = Append(calls, "get_available_slots")
           /\ answer' = response
           /\ slot_check' = check
           /\ Proceed(after_slot_check(check), "validate_lead")
    /\ UNCHANGED <<flow, start_datetime>>

StepValidateLead ==
    /\ pc = "validate_lead"
    /\ \E response \in LeadValidationResponses :
        /\ calls' = Append(calls, "validate_lead")
        /\ answer' = response
        /\ Proceed(after_validate_lead(validate_lead(response)), "create_lead")
    /\ UNCHANGED <<flow, start_datetime, slot_check>>

\* After the lead exists, validate_appointment_for_lead builds its payload,
\* end time included, before it sends anything.
StepCreateLead ==
    /\ pc = "create_lead"
    /\ \E response \in LeadCreationResponses :
        LET decision == after_create_lead(create_lead(response))
        IN /\ calls' = Append(calls, "create_lead")
           /\ answer' = response
           /\ Proceed(IF ~decision.ret /\ end_time_raises(start_datetime)
                      THEN Raised ELSE decision,
                      "validate_appointment_for_lead")
    /\ UNCHANGED <<flow, start_datetime, slot_check>>

StepValidateAppointmentForLead ==
    /\ pc = "validate_appointment_for_lead"
    /\ \E response \in ValidationResponses :
        /\ calls' = Append(calls, "validate_appointment_for_lead")
        /\ answer' = response
        /\ Proceed(after_validate_appointment(validate_appointment_for_lead(response)),
                   "book_appointment_for_lead")
    /\ UNCHANGED <<flow, start_datetime, slot_check>>

StepBookAppointmentForLead ==
    /\ pc = "book_appointment_for_lead"
    /\ \E response \in BookingResponses :
        /\ calls' = Append(calls, "book_appointment_for_lead")
        /\ answer' = response
        /\ Proceed(after_book_for_lead(book_appointment_for_lead(response)), "returned")
    /\ UNCHANGED <<flow, start_datetime, slot_check>>

\* ------------------------------------------------------- CustomerService

\* CustomerStatus and BotMessages.DEFAULT_NAME.
NEW_LEAD == "neuer Interessent"
NAME_KNOWN == "Name bekannt"
TRIAL_BOOKED == "Beratungstermin gebucht"
DEFAULT_NAME == "du"

\* The one customer of the model.
Phone == "491234567890"

\* None as a value of the given key: datum holds dates, uhrzeit holds times,
\* every other key holds strings.
NoneOf(key) == IF key = "datum" THEN NoDate ELSE IF key = "uhrzeit" THEN NoTime ELSE None

\* dict.get(key) of a dict given as a function.
Get(dict, key) == IF key \in DOMAIN dict THEN dict[key] ELSE NoneOf(key)

\* The profile template, cut down to the fields the booking engine reads
\* and one of the free-form ones (alter).
_default_profil ==
    [magicline_customer_id |-> None, vorname |-> None, nachname |-> None,
     datum |-> NoDate, uhrzeit |-> NoTime, alter |-> None, email |-> None,
     last_booking_id |-> None]

NewCustomer ==
    [name |-> DEFAULT_NAME, status |-> NEW_LEAD, profil |-> _default_profil,
     history |-> <<>>]

\* get: the store with the customer created when absent.
get(store, phone) ==
    [p \in DOMAIN store \cup {phone} |-> IF p \in DOMAIN store THEN store[p] ELSE NewCustomer]

\* Fault seeding: update_profil that stores the None values too.
update_profil_clearing(store, phone, profil_data) ==
    LET got == get(store, phone)
        customer == got[phone]
        profil == [key \in DOMAIN customer.profil |->
                      IF key \in DOMAIN profil_data
                      THEN profil_data[key] ELSE customer.profil[key]]
        name == IF Get(profil_data, "vorname") # None THEN profil_data["vorname"]
                ELSE IF Get(profil_data, "name") # None THEN profil_data["name"]
                ELSE customer.name
        status == IF Get(profil_data, "status") # None THEN profil_data["status"]
                  ELSE customer.status
    IN [got EXCEPT ![phone] = [customer EXCEPT !.profil = profil, !.name = name,
                                               !.status = status]]

\* Fault seeding: update_profil storing every key of profil_data.
update_profil_without_key_check(store, phone, profil_data) ==
    LET got == get(store, phone)
        customer == got[phone]
        profil == [key \in DOMAIN customer.profil \cup DOMAIN profil_data |->
                      IF key \in DOMAIN profil_data /\ profil_data[key] # NoneOf(key)
                      THEN profil_data[key] ELSE customer.profil[key]]
        name == IF Get(profil_data, "vorname") # None THEN profil_data["vorname"]
                ELSE IF Get(profil_data, "name") # None THEN profil_data["name"]
                ELSE customer.name
        status == IF Get(profil_data, "status") # None THEN profil_data["status"]
                  ELSE customer.status
    IN [got EXCEPT ![phone] = [customer EXCEPT !.profil = profil, !.name = name,
                                               !.status = status]]

\* Fault seeding: update_profil taking the name from the first name that
\* was stored before the call.
update_profil_name_from_stored(store, phone, profil_data) ==
    LET got == get(store, phone)
        customer == got[phone]
        profil == [key \in DOMAIN customer.profil |->
                      IF key \in DOMAIN profil_data /\ profil_data[key] # NoneOf(key)
                      THEN profil_data[key] ELSE customer.profil[key]]
        name == IF Get(profil_data, "vorname") # None /\ customer.profil.vorname # None
                THEN customer.profil.vorname
                ELSE IF Get(profil_data, "vorname") # None THEN profil_data["vorname"]
                ELSE IF Get(profil_data, "name") # None THEN profil_data["name"]
                ELSE customer.name
        status == IF Get(profil_data, "status") # None THEN profil_data["status"]
                  ELSE customer.status
    IN [got EXCEPT ![phone] = [customer EXCEPT !.profil = profil, !.name = name,
                                               !.status = status]]

update_profil(store, phone, profil_data) ==
    LET got == get(store, phone)
        customer == got[phone]
        profil == [key \in DOMAIN customer.profil |->
                      IF key \in DOMAIN profil_data /\ profil_data[key] # NoneOf(key)
                      THEN profil_data[key] ELSE customer.profil[key]]
        name == IF Get(profil_data, "vorname") # None THEN profil_data["vorname"]
                ELSE IF Get(profil_data, "name") # None THEN profil_data["name"]
                ELSE customer.name
        status == IF Get(profil_data, "status") # None THEN profil_data["status"]
                  ELSE customer.status
    IN [got EXCEPT ![phone] = [customer EXCEPT !.profil = profil, !.name = name,
                                               !.status = status]]

update_status(store, phone, status) ==
    [get(store, phone) EXCEPT ![phone].status = status]

\* max_history = 100 and keep_history = 80 of update_history.
MaxHistory == 100
KeepHistory == 80

\* Fault seeding: update_history keeping the oldest entries when it trims.
update_history_keeping_oldest(store, phone, user_msg, bot_reply) ==
    LET got == get(store, phone)
        appended == got[phone].history \o <<[role |-> "user", content |-> user_msg],
                                            [role |-> "assistant", content |-> bot_reply]>>
        trimmed == IF Len(appended) > MaxHistory
                   THEN SubSeq(appended, 1, KeepHistory)
                   ELSE appended
    IN [got EXCEPT ![phone].history = trimmed]

update_history(store, phone, user_msg, bot_reply) ==
    LET got == get(store, phone)
        appended == got[phone].history \o <<[role |-> "user", content |-> user_msg],
                                            [role |-> "assistant", content |-> bot_reply]>>
        trimmed == IF Len(appended) > MaxHistory
                   THEN SubSeq(appended, Len(appended) - KeepHistory + 1, Len(appended))
                   ELSE appended
    IN [got EXCEPT ![phone].history = trimmed]

\* ------------------------------------------------ constants.py, text_parser

\* "DD.MM.YYYY" of a "YYYY-MM-DD" date: <<day, month, year>>.
format_date_german(date_str) == <<date_str[3], date_str[2], date_str[1]>>

\* f"{datum}T{uhrzeit}:00{tz_offset}", None (the empty datetime) unless both
\* are given.
build_datetime_iso(datum, uhrzeit) ==
    IF datum # NoDate /\ uhrzeit # NoTime
    THEN [shape |-> "iso", date |-> datum, time |-> uhrzeit]
    ELSE EmptyDatetime

\* Fault seeding: extract_booking_intent for which a booking keyword is
\* enough.
extract_booking_intent_keyword_alone(has_booking_keyword, has_date, has_time, customer_context) ==
    \/ has_booking_keyword
    \/ customer_context.has_booking_data /\ (has_date \/ has_time)
    \/ customer_context.has_partial_datetime /\ (has_date \/ has_time)

\* has_booking_keyword, has_date and has_time are what the keyword list and
\* the date and time patterns find in (text + reply).lower().
extract_booking_intent(has_booking_keyword, has_date, has_time, customer_context) ==
    \/ has_booking_keyword /\ (has_date \/ has_time)
    \/ customer_context.has_booking_data /\ (has_date \/ has_time)
    \/ customer_context.has_partial_datetime /\ (has_date \/ has_time)

\* ------------------------------------------------------------- the replies

Reply(mark, id, alts, date, fields) ==
    [mark |-> mark, id |-> id, alts |-> alts, date |-> date, fields |-> fields]

\* The draft reply of the chat model.
LLM_DRAFT == Reply("", "LLM_DRAFT", <<>>, NoDate, <<>>)

\* BotMessages.missing_time(date_german).
missing_time(date_german) == Reply("", "MISSING_TIME", <<>>, date_german, <<>>)

\* "An welchem Tag möchtest du vorbeikommen?"
ASK_DAY == Reply("", "ASK_DAY", <<>>, NoDate, <<>>)

\* BotMessages.missing_booking_data(fields).
missing_booking_data(fields) == Reply("", "MISSING_BOOKING_DATA", <<>>, NoDate, fields)

\* f"✅ {message}" and f"❌ {message}".
SuccessReply(message) == Reply("ok", message.id, message.alts, NoDate, <<>>)
FailureReply(message) == Reply("fail", message.id, message.alts, NoDate, <<>>)

\* ------------------------------------------------------- ExtractionService

\* The five fields of the extraction, all None.
NoExtraction ==
    [vorname |-> None, nachname |-> None, email |-> None,
     datum |-> NoDate, uhrzeit |-> NoTime]

ExtractionFields == {"vorname", "nachname", "email", "datum", "uhrzeit"}

\* EMAIL_PATTERN on the addresses the extraction model is let to propose.
ProposedEmails == {"max@test.de", "max@test"}
validate_email(email) == email # None /\ email \in {"max@test.de"}

\* validate_name on the names the extraction model is let to propose: "M"
\* is shorter than two characters, "der" is one of invalid_names.
ProposedNames == {"Max", "Mustermann", "der", "M"}
invalid_names == {"der", "die", "das", "ich", "du", "und", "oder", "ein", "eine"}
validate_name(name) ==
    name # None /\ name \notin {"M"} /\ name \notin invalid_names

\* The bounds of _validate_extracted_data on a proposed date.
PlaceholderYear == 2020
MaxFutureDays == 365
MaxPastDays == 7

\* date.toordinal(): the number of the day, 0001-01-01 being day 1.
RECURSIVE DaysBeforeMonth(_, _)
DaysBeforeMonth(y, m) ==
    IF m = 1 THEN 0 ELSE DaysBeforeMonth(y, m - 1) + DaysInMonth(y, m - 1)

toordinal(date) ==
    LET y == date[1] - 1
    IN y * 365 + (y \div 4) - (y \div 100) + (y \div 400)
           + DaysBeforeMonth(date[1], date[2]) + date[3]

\* datetime.now(): the day, and whether it is read at 00:00:00.000000.
Nows ==
    {[date |-> <<2026, 1, 13>>, at_midnight |-> FALSE],
     [date |-> <<2026, 1, 27>>, at_midnight |-> FALSE],
     [date |-> <<2026, 1, 27>>, at_midnight |-> TRUE]}

\* The answer of generate_extraction: a raise, a text without JSON, or a
\* JSON object with a proposal for each field ("null" for a field the
\* model leaves out in words).
\* A date written without the leading zero of its month ("2026-1-20") is
\* the day followed by the mark "-M-".
ProposedDates ==
    {NoDate, GoodDate, BadDate, <<1970, 1, 1>>, <<2026, 1, 1>>, <<2028, 6, 1>>,
     <<2026, 1, 20, "-M-">>}

ProposedTimes == {NoTime, T1400, <<25, 0>>}

RawResponses ==
    {[kind |-> "raises", data |-> NoExtraction], [kind |-> "no_json", data |-> NoExtraction]}
    \cup {[kind |-> "json",
           data |-> [vorname |-> v, nachname |-> None, email |-> e,
                     datum |-> d, uhrzeit |-> t]] :
            v \in {None, "null", "Max", "der", "M"}, e \in {None} \cup ProposedEmails,
            d \in ProposedDates, t \in ProposedTimes}

\* The text handed to extract_customer_data: whether it holds a date cue
\* (a DD.MM pattern, a weekday name, heute, morgen, ...).
Texts == [has_date_cue : BOOLEAN]

\* _parse_extraction_response: the fields of the JSON object, None for a
\* field that is null, empty or the word "null"; all None without JSON.
_parse_extraction_response(response) ==
    IF response.kind # "json" THEN NoExtraction
    ELSE [field \in ExtractionFields |->
            IF field \in {"datum", "uhrzeit"} THEN response.data[field]
            ELSE IF response.data[field] \in {None, "null", "none", ""} THEN None
            ELSE response.data[field]]

\* The date check of _validate_extracted_data: strptime("%Y-%m-%d"), then
\* the year, now + 365 days and now - 7 days; parsed_date is the proposed
\* day at 00:00. strptime reads a month or day of one digit as well, and
\* the string that passes is kept as it was proposed.
validate_datum(datum, now) ==
    IF datum = NoDate THEN NoDate
    ELSE IF ~IsCalendar(datum, <<0, 0>>) THEN NoDate
    ELSE IF datum[1] < PlaceholderYear THEN NoDate
    ELSE IF toordinal(datum) > toordinal(now.date) + MaxFutureDays THEN NoDate
    ELSE IF \/ toordinal(datum) < toordinal(now.date) - MaxPastDays
            \/ /\ toordinal(datum) = toordinal(now.date) - MaxPastDays
               /\ ~now.at_midnight
    THEN NoDate
    ELSE datum

\* _validate_extracted_data(data), with the value datetime.now() has in it.
_validate_extracted_data(data, now) ==
    [vorname |-> IF data.vorname # None /\ ~validate_name(data.vorname)
                 THEN None ELSE data.vorname,
     nachname |-> IF data.nachname # None /\ ~validate_name(data.nachname)
                  THEN None ELSE data.nachname,
     email |-> IF data.email # None /\ ~validate_email(data.email)
               THEN None ELSE data.email,
     datum |-> validate_datum(data.datum, now),
     uhrzeit |-> IF data.uhrzeit # NoTime /\ ~IsCalendar(<<1900, 1, 1>>, data.uhrzeit)
                 THEN NoTime ELSE data.uhrzeit]

\* extract_customer_data(text): the text goes into the prompt and nowhere
\* else; raw_response is what generate_extraction answers.
extract_customer_data(text, raw_response, now) ==
    IF raw_response.kind = "raises" THEN NoExtraction
    ELSE _validate_extracted_data(_parse_extraction_response(raw_response), now)

\* ------------------------------------------------------- inbound messages

\* What the extractors read from one inbound text:
\*   has_booking_keyword, has_date, has_time  the cues of extract_booking_intent
\*                    in text + reply
\*   date, time       extract_date_only(text), extract_time_only(text)
\*   extracted_data   the dict of extract_customer_data after the regex
\*                    fallbacks for the names and the email
\*   extracted_profil the profil dict of the chat model's answer
\* A text that extract_date_only or extract_time_only reads a value from
\* holds the matching cue.
NoIdentity == [vorname |-> None, nachname |-> None, email |-> None]
FullIdentity == [vorname |-> "Max", nachname |-> "Mustermann", email |-> "max@test.de"]

ExtractedData ==
    {[vorname |-> i.vorname, nachname |-> i.nachname, email |-> i.email,
      datum |-> dt[1], uhrzeit |-> dt[2]] :
        i \in {NoIdentity, FullIdentity},
        dt \in {<<NoDate, NoTime>>, <<GoodDate, NoTime>>, <<NoDate, T1400>>}}

EmptyDict == <<>>

ExtractedProfils ==
    {EmptyDict, [vorname |-> "Max", hobby |-> "Yoga"], [datum |-> <<1970, 1, 1>>]}

Messages ==
    {m \in [has_booking_keyword : BOOLEAN, has_date : BOOLEAN, has_time : BOOLEAN,
            date : {NoDate, GoodDate, BadDate}, time : {NoTime, T1400},
            extracted_data : ExtractedData, extracted_profil : ExtractedProfils] :
        /\ m.date # NoDate => m.has_date
        /\ m.has_time <=> m.time # NoTime}

\* A text with no date, no time and no booking keyword, from which the
\* extraction model reads no date or time either.
IsPlain(m) ==
    /\ ~m.has_booking_keyword /\ ~m.has_date /\ ~m.has_time
    /\ m.date = NoDate /\ m.time = NoTime
    /\ m.extracted_data.datum = NoDate /\ m.extracted_data.uhrzeit = NoTime

\* --------------------------------------------------------- handler state

VARIABLES
    customers,  \* CustomerService.customers: phone -> customer record
    outbox,     \* the replies handed to send_whatsapp_message, in order
    turn,       \* the number of text messages taken in so far
    plain,      \* history: the text of the running or last turn was plain
    booked,     \* history: the booking protocol returned success in an earlier turn
    msg,        \* the inbound text handed to the handler when it is run on a
                \* text drawn in advance (NoMsg otherwise)
    applied,    \* the function last applied on its own, with its arguments
                \* and its value (NotApplied when none was)
    _messages,  \* ProcessedMessageTracker._messages: the tracked message
                \* ids, oldest first
    passed,     \* history: the ids of the webhook messages that passed the
                \* duplicate check, in order
    threads,    \* the handler threads inside update_profil: thread -> its
                \* profil_data, its position and the text it has dumped
    memory_file \* the content of MEMORY_FILE while handler threads save
                \* (NotTracked where one handler runs alone: every
                \* operation of the store ends with save())

\* The all-empty text, and the record of no application.
NoMsg ==
    [has_booking_keyword |-> FALSE, has_date |-> FALSE, has_time |-> FALSE,
     date |-> NoDate, time |-> NoTime,
     extracted_data |-> [vorname |-> None, nachname |-> None, email |-> None,
                         datum |-> NoDate, uhrzeit |-> NoTime],
     extracted_profil |-> EmptyDict]

NotApplied == [fn |-> "none"]

\* The state outside the handler of one text: the webhook's tracker.
NotTracked == "not tracked"

aside_vars == <<_messages, passed, threads, memory_file>>

InitAside ==
    /\ _messages = <<>>
    /\ passed = <<>>
    /\ threads = <<>>
    /\ memory_file = NotTracked

handler_vars == <<customers, outbox, turn, plain, booked, msg, applied, _messages, passed,
          threads, memory_file>>

vars == <<pc, flow, start_datetime, calls, answer, slot_check, result,
          customers, outbox, turn, plain, booked, msg, applied, _messages, passed,
          threads, memory_file>>

\* ---------------------------------------- routes: _handle_booking_if_needed

\* Fault seeding: the missing-field list without the email check.
missing_fields_without_email(vorname, nachname, email) ==
    (IF vorname = None THEN <<"Vorname">> ELSE <<>>)
        \o (IF nachname = None THEN <<"Nachname">> ELSE <<>>)

\* The missing fields of the trial-offer path, in the order of the prompt.
missing_fields(vorname, nachname, email) ==
    (IF vorname = None THEN <<"Vorname">> ELSE <<>>)
        \o (IF nachname = None THEN <<"Nachname">> ELSE <<>>)
        \o (IF email = None THEN <<"E-Mail-Adresse">> ELSE <<>>)

\* Fault seeding: the auto-trigger firing on every turn.
auto_trigger_always(booking_intent, all_data_complete) ==
    TRUE

\* booking_intent after the auto-trigger: complete stored data forces it.
auto_trigger(booking_intent, all_data_complete) ==
    booking_intent \/ all_data_complete

\* Fault seeding: the stored value winning over the new one.
merge_stored_over_new(new, stored, none) ==
    IF stored # none THEN stored ELSE new

\* new_date or stored_date, new_time or stored_time: the new value wins.
merge_new_over_stored(new, stored, none) ==
    IF new # none THEN new ELSE stored

\* No reply decided.
NoReply == Reply("", "none", <<>>, NoDate, <<>>)

\* Fault seeding: step 4 asking for the half that is already known.
missing_datetime_prompt_swapped(final_date, final_time) ==
    IF final_date # NoDate /\ final_time = NoTime
    THEN ASK_DAY
    ELSE IF final_time # NoTime /\ final_date = NoDate
    THEN missing_time(format_date_german(GoodDate))
    ELSE NoReply

\* Step 4, the date and time checks: the prompt for the missing half, or
\* NoReply.
missing_datetime_prompt(final_date, final_time) ==
    IF final_date # NoDate /\ final_time = NoTime
    THEN missing_time(format_date_german(final_date))
    ELSE IF final_time # NoTime /\ final_date = NoDate
    THEN ASK_DAY
    ELSE NoReply

\* Fault seeding: step 5 choosing by the personal data before the customer id.
select_flow_by_personal_data(magicline_customer_id, missing) ==
    IF missing = <<>> THEN "try_book_trial_offer"
    ELSE IF magicline_customer_id # None THEN "try_book"
    ELSE "none"

\* Step 5: the flow for the customer, "none" for a lead with missing fields.
select_flow(magicline_customer_id, missing) ==
    IF magicline_customer_id # None THEN "try_book"
    ELSE IF missing # <<>> THEN "none"
    ELSE "try_book_trial_offer"

\* _handle_booking_if_needed up to the call of the booking protocol.
\* Returns the store as it leaves it, the flow to invoke ("none": the reply
\* is final) with its start_datetime, and the reply.
_handle_booking_if_needed(store, phone, m, reply) ==
    LET customer == store[phone]
        profil == customer.profil
        stored_vorname == profil.vorname
        stored_nachname == profil.nachname
        stored_email == profil.email
        stored_date == profil.datum
        stored_time == profil.uhrzeit
        all_data_complete ==
            /\ stored_vorname # None /\ stored_nachname # None /\ stored_email # None
            /\ stored_date # NoDate /\ stored_time # NoTime
        customer_context ==
            [has_booking_data |->
                stored_vorname # None /\ stored_nachname # None /\ stored_email # None,
             has_partial_datetime |-> stored_date # NoDate \/ stored_time # NoTime]
        booking_intent ==
            auto_trigger(extract_booking_intent(m.has_booking_keyword, m.has_date,
                                                m.has_time, customer_context),
                         all_data_complete)
        new_date == IF m.date # NoDate THEN m.date ELSE m.extracted_data.datum
        new_time == IF m.time # NoTime THEN m.time ELSE m.extracted_data.uhrzeit
        final_date == merge_new_over_stored(new_date, stored_date, NoDate)
        final_time == merge_new_over_stored(new_time, stored_time, NoTime)
        save_date == new_date # NoDate /\ new_date # stored_date
        save_time == new_time # NoTime /\ new_time # stored_time
        updates == (IF save_date THEN [datum |-> new_date] ELSE EmptyDict)
                       @@ (IF save_time THEN [uhrzeit |-> new_time] ELSE EmptyDict)
        saved == IF save_date \/ save_time THEN update_profil(store, phone, updates)
                 ELSE store
        prompt == missing_datetime_prompt(final_date, final_time)
        start_date_time == build_datetime_iso(final_date, final_time)
        magicline_customer_id == profil.magicline_customer_id
        vorname == IF stored_vorname # None THEN stored_vorname
                   ELSE IF customer.name # DEFAULT_NAME THEN customer.name ELSE None
        missing == missing_fields(vorname, stored_nachname, stored_email)
        selected == select_flow(magicline_customer_id, missing)
        Answer(st, invoke, rep) ==
            [store |-> st, invoke |-> invoke, start |-> start_date_time, reply |-> rep]
    IN IF ~booking_intent THEN Answer(store, "none", reply)
       ELSE IF prompt # NoReply THEN Answer(saved, "none", prompt)
       ELSE IF start_date_time = EmptyDatetime THEN Answer(saved, "none", reply)
       ELSE IF selected = "none" THEN Answer(saved, "none", missing_booking_data(missing))
       ELSE Answer(saved, selected, reply)

\* ------------------------------------------- routes: _handle_text_message

ResetFlow ==
    /\ pc' = "idle"
    /\ flow' = "none"
    /\ start_datetime' = EmptyDatetime
    /\ calls' = <<>>
    /\ answer' = NoAnswer
    /\ slot_check' = NoSlotCheck
    /\ result' = Continue

AnyTruthy(extracted_data) ==
    \E key \in DOMAIN extracted_data : extracted_data[key] # NoneOf(key)

\* _handle_text_message up to the call of _handle_booking_if_needed: the
\* store after the profile and status updates of the turn.
before_booking(store, phone, m) ==
    LET got == get(store, phone)
        original_name == got[phone].name
        with_extracted == IF AnyTruthy(m.extracted_data)
                          THEN update_profil(got, phone, m.extracted_data) ELSE got
        with_profil == IF DOMAIN m.extracted_profil # {}
                       THEN update_profil(with_extracted, phone, m.extracted_profil)
                       ELSE with_extracted
        vorname_found == \/ m.extracted_data.vorname # None
                         \/ Get(m.extracted_profil, "vorname") # None
    IN IF vorname_found /\ original_name = DEFAULT_NAME
       THEN update_status(with_profil, phone, NAME_KNOWN)
       ELSE with_profil

\* _handle_text_message from its first line to the first provider request
\* of the booking protocol, or, when the protocol is not invoked, to its
\* end (update_history and send_whatsapp_message).
HandleTextMessage(m) ==
    /\ pc = "idle"
    /\ turn < MaxTurns
    /\ \E handled \in {_handle_booking_if_needed(before_booking(customers, Phone, m),
                                                 Phone, m, LLM_DRAFT)} :
          /\ turn' = turn + 1
          /\ plain' = IsPlain(m)
          /\ UNCHANGED <<booked, msg, applied>>
          /\ UNCHANGED aside_vars
          /\ IF handled.invoke = "none"
             THEN /\ customers' = update_history(handled.store, Phone, turn + 1, handled.reply)
                  /\ outbox' = Append(outbox, handled.reply)
                  /\ ResetFlow
             ELSE /\ customers' = handled.store
                  /\ UNCHANGED outbox
                  /\ IF handled.invoke = "try_book"
                     THEN EnterTryBook(handled.start)
                     ELSE EnterTryBookTrialOffer(handled.start)

Handle == \E m \in Messages : HandleTextMessage(m)

\* _handle_booking_if_needed behind the booking protocol, and the rest of
\* _handle_text_message.  On success the handler calls
\* customer_service.add_booking, a method CustomerService does not define:
\* the AttributeError, like an exception out of the protocol, lands in the
\* except clause of _handle_text_message, which only logs it.
FinishBooking ==
    /\ pc = "returned"
    /\ flow # "none"
    /\ ResetFlow
    /\ booked' = (booked \/ (~result.raised /\ result.success))
    /\ IF result.raised \/ result.success
       THEN UNCHANGED <<customers, outbox>>
       ELSE /\ customers' = update_history(customers, Phone, turn,
                                           FailureReply(result.message))
            /\ outbox' = Append(outbox, FailureReply(result.message))
    /\ UNCHANGED <<turn, plain, msg, applied>>
    /\ UNCHANGED aside_vars

\* ------------------------------------------------------------------- Init

\* The store as _load reads it from the memory file: empty, or holding the
\* customer with what earlier conversations left in the profile.
\* magicline_customer_id is entered by hand once a customer registers.
StoredIdentities ==
    {NoIdentity,
     [vorname |-> "Max", nachname |-> None, email |-> None],
     [vorname |-> "Max", nachname |-> "Mustermann", email |-> None],
     FullIdentity}

StoredCustomers ==
    {[name |-> IF i.vorname # None THEN i.vorname ELSE DEFAULT_NAME,
      status |-> IF i.vorname # None THEN NAME_KNOWN ELSE NEW_LEAD,
      profil |-> [_default_profil EXCEPT !.magicline_customer_id = id,
                                         !.vorname = i.vorname,
                                         !.nachname = i.nachname,
                                         !.email = i.email,
                                         !.datum = d, !.uhrzeit = t],
      history |-> <<>>] :
        id \in {None, "12345"}, i \in StoredIdentities,
        d \in {NoDate, GoodDate}, t \in {NoTime, T1400}}

InitFlow ==
    /\ pc = "idle"
    /\ flow = "none"
    /\ start_datetime = EmptyDatetime
    /\ calls = <<>>
    /\ answer = NoAnswer
    /\ slot_check = NoSlotCheck
    /\ result = Continue

Init ==
    /\ InitFlow
    /\ InitAside
    /\ customers \in {EmptyDict} \cup {[p \in {Phone} |-> c] : c \in StoredCustomers}
    /\ outbox = <<>>
    /\ turn = 0
    /\ plain = FALSE
    /\ booked = FALSE
    /\ msg = NoMsg
    /\ applied = NotApplied

Next ==
    \/ Handle
    \/ StepValidateSlot /\ UNCHANGED handler_vars
    \/ StepBookAppointment /\ UNCHANGED handler_vars
    \/ StepGetAvailableSlots /\ UNCHANGED handler_vars
    \/ StepValidateLead /\ UNCHANGED handler_vars
    \/ StepCreateLead /\ UNCHANGED handler_vars
    \/ StepValidateAppointmentForLead /\ UNCHANGED handler_vars
    \/ StepBookAppointmentForLead /\ UNCHANGED handler_vars
    \/ FinishBooking

Spec == Init /\ [][Next]_vars

\* ------------------------------ the booking protocol called on its own

\* try_book and try_book_trial_offer called directly, as the unit tests do,
\* with any start_datetime.
TryBook ==
    /\ pc \in {"idle", "returned"}
    /\ \E start \in StartDatetimes : EnterTryBook(start)
    /\ UNCHANGED handler_vars

TryBookTrialOffer ==
    /\ pc \in {"idle", "returned"}
    /\ \E start \in StartDatetimes : EnterTryBookTrialOffer(start)
    /\ UNCHANGED handler_vars

InitBooking ==
    /\ InitFlow
    /\ InitAside
    /\ customers = EmptyDict
    /\ outbox = <<>>
    /\ turn = 0
    /\ plain = FALSE
    /\ booked = FALSE
    /\ msg = NoMsg
    /\ applied = NotApplied

NextBooking ==
    \/ TryBook
    \/ TryBookTrialOffer
    \/ StepValidateSlot /\ UNCHANGED handler_vars
    \/ StepBookAppointment /\ UNCHANGED handler_vars
    \/ StepGetAvailableSlots /\ UNCHANGED handler_vars
    \/ StepValidateLead /\ UNCHANGED handler_vars
    \/ StepCreateLead /\ UNCHANGED handler_vars
    \/ StepValidateAppointmentForLead /\ UNCHANGED handler_vars
    \/ StepBookAppointmentForLead /\ UNCHANGED handler_vars

SpecBooking == InitBooking /\ [][NextBooking]_vars

\* ------------------------- the handler run once on a text drawn in advance

\* _handle_text_message called once with a text known beforehand, on any
\* stored customer.
HandleGiven ==
    /\ turn = 0
    /\ HandleTextMessage(msg)

InitResolver ==
    /\ InitFlow
    /\ InitAside
    /\ customers \in {EmptyDict} \cup {[p \in {Phone} |-> c] : c \in StoredCustomers}
    /\ outbox = <<>>
    /\ turn = 0
    /\ plain = FALSE
    /\ booked = FALSE
    /\ msg \in Messages
    /\ applied = NotApplied

NextResolver ==
    \/ HandleGiven
    \/ StepValidateSlot /\ UNCHANGED handler_vars
    \/ StepBookAppointment /\ UNCHANGED handler_vars
    \/ StepGetAvailableSlots /\ UNCHANGED handler_vars
    \/ StepValidateLead /\ UNCHANGED handler_vars
    \/ StepCreateLead /\ UNCHANGED handler_vars
    \/ StepValidateAppointmentForLead /\ UNCHANGED handler_vars
    \/ StepBookAppointmentForLead /\ UNCHANGED handler_vars
    \/ FinishBooking

SpecResolver == InitResolver /\ [][NextResolver]_vars

\* --------------------------------------- extract_customer_data on its own

\* extract_customer_data applied to a text, with the answer of the
\* extraction model and the clock drawn in advance.
ExtractCustomerData ==
    /\ applied.fn = "input"
    /\ applied' = [fn |-> "extract_customer_data",
                   text |-> applied.text, raw_response |-> applied.raw_response,
                   now |-> applied.now,
                   value |-> extract_customer_data(applied.text, applied.raw_response,
                                                   applied.now)]
    /\ UNCHANGED <<customers, outbox, turn, plain, booked, msg>>
    /\ UNCHANGED aside_vars
    /\ UNCHANGED flow_vars

InitExtraction ==
    /\ InitFlow
    /\ InitAside
    /\ customers = EmptyDict
    /\ outbox = <<>>
    /\ turn = 0
    /\ plain = FALSE
    /\ booked = FALSE
    /\ msg = NoMsg
    /\ applied \in {[fn |-> "input", text |-> t, raw_response |-> r, now |-> n] :
                       t \in Texts, r \in RawResponses, n \in Nows}

NextExtraction == ExtractCustomerData

SpecExtraction == InitExtraction /\ [][NextExtraction]_vars

\* ------------------------------------------ a turn of a booked customer

\* Stored customers whose status is TRIAL_BOOKED, as the test fixture
\* CUSTOMER_REGISTERED.
BookedCustomers ==
    {[c EXCEPT !.status = TRIAL_BOOKED] : c \in {s \in StoredCustomers : s.name # DEFAULT_NAME}}

\* Texts for which the chat model answers with no profil or with a profil
\* that holds a status.
StatusMessages ==
    {[m EXCEPT !.extracted_profil = p] :
        m \in {n \in Messages : n.extracted_profil = EmptyDict},
        p \in {EmptyDict, [status |-> NEW_LEAD]}}

InitStatus ==
    /\ InitFlow
    /\ InitAside
    /\ customers \in {[p \in {Phone} |-> c] : c \in BookedCustomers}
    /\ outbox = <<>>
    /\ turn = 0
    /\ plain = FALSE
    /\ booked = FALSE
    /\ msg \in StatusMessages
    /\ applied = NotApplied

SpecStatus == InitStatus /\ [][NextResolver]_vars

\* ------------------------------------------------- the webhook's tracker

\* message_tracker = ProcessedMessageTracker(max_size=1000)
max_size == 1000

\* The number of messages let through the duplicate check.
MaxPassed == 1002

\* The ids that the provider delivers a second time.
RedeliveredIds == {1, 2}

\* is_duplicate(msg_id): whether the id is tracked, and _messages after the
\* call: a new id is added at the end and the oldest ids are dropped while
\* there are more than max_size.
is_duplicate(messages, msg_id) ==
    IF \E i \in 1..Len(messages) : messages[i] = msg_id
    THEN [duplicate |-> TRUE, _messages |-> messages]
    ELSE LET added == Append(messages, msg_id)
         IN [duplicate |-> FALSE,
             _messages |-> IF Len(added) > max_size
                           THEN SubSeq(added, Len(added) - max_size + 1, Len(added))
                           ELSE added]

\* Fault seeding: a handler without the try block, out of which the
\* exception goes on into webhook().
propagates_uncaught(raises) == raises

\* Whether an exception raised in the try block of _handle_text_message
\* leaves the handler: except Exception catches it and only logs it.
propagates(raises) == FALSE

\* One message of _process_change, a text with sender and body: skipped
\* when is_duplicate answers True, handed to _handle_text_message
\* otherwise.  The handler either reaches send_whatsapp_message (outbox
\* gets the reply to msg_id) or raises before it and sends nothing.
ProcessMessage(msg_id, raises) ==
    /\ \E checked \in {is_duplicate(_messages, msg_id)} :
          /\ _messages' = checked._messages
          /\ passed' = IF checked.duplicate THEN passed ELSE Append(passed, msg_id)
          /\ outbox' = IF checked.duplicate \/ raises THEN outbox
                       ELSE Append(outbox, msg_id)
    /\ UNCHANGED <<customers, turn, plain, booked, msg>>
    /\ UNCHANGED <<threads, memory_file>>
    /\ UNCHANGED flow_vars

\* The provider sends a new id or one of RedeliveredIds again; the handler
\* raising is followed for the ids that come again.
ProcessChange ==
    /\ Len(passed) < MaxPassed
    /\ \E msg_id \in {Len(passed) + 1} \cup (RedeliveredIds \cap 1..Len(passed)) :
          \E raises \in IF msg_id \in RedeliveredIds THEN BOOLEAN ELSE {FALSE} :
             ProcessMessage(msg_id, raises)
    /\ UNCHANGED applied

InitWebhook ==
    /\ InitFlow
    /\ InitAside
    /\ customers = EmptyDict
    /\ outbox = <<>>
    /\ turn = 0
    /\ plain = FALSE
    /\ booked = FALSE
    /\ msg = NoMsg
    /\ applied = NotApplied

NextWebhook == ProcessChange

SpecWebhook == InitWebhook /\ [][NextWebhook]_vars

\* --------------------------------------------- _calculate_end_time

\* Start timestamps of every shape, on a day in the month, on the last day
\* of the year and on a day that is not on the calendar, at noon and late
\* in the evening; and the durations.
EndTimeStarts ==
    [shape : Shapes, date : {GoodDate, BadDate, <<2026, 12, 31>>},
     time : {T1200, <<23, 45>>}]

Durations == {30, 60, 90}

CalculateEndTime ==
    /\ applied.fn = "input"
    /\ "duration_minutes" \in DOMAIN applied
    /\ \E end \in {_calculate_end_time(applied.start_datetime, applied.duration_minutes)} :
          applied' = [fn |-> "_calculate_end_time",
                      start_datetime |-> applied.start_datetime,
                      duration_minutes |-> applied.duration_minutes,
                      raised |-> end.raised, value |-> end.value]
    /\ UNCHANGED <<customers, outbox, turn, plain, booked, msg>>
    /\ UNCHANGED aside_vars
    /\ UNCHANGED flow_vars

InitEndTime ==
    /\ InitFlow
    /\ InitAside
    /\ customers = EmptyDict
    /\ outbox = <<>>
    /\ turn = 0
    /\ plain = FALSE
    /\ booked = FALSE
    /\ msg = NoMsg
    /\ applied \in {[fn |-> "input", start_datetime |-> s, duration_minutes |-> d] :
                       s \in EndTimeStarts, d \in Durations}

SpecEndTime == InitEndTime /\ [][CalculateEndTime]_vars

\* ---------------------------------------------------- _is_valid_name

\* A candidate name: the word, len(name), and the number of its
\* characters for which isalpha() holds.  "?" stands for any string of
\* that many characters and letters.
CandidateNames ==
    {[word |-> "Max", len |-> 3, letters |-> 3],
     [word |-> "Max123", len |-> 6, letters |-> 3],
     [word |-> "Maxxxx1", len |-> 7, letters |-> 6],
     [word |-> "A", len |-> 1, letters |-> 1],
     [word |-> "", len |-> 0, letters |-> 0],
     [word |-> "Emailadresse", len |-> 12, letters |-> 12],
     [word |-> "EMAILADRESSE", len |-> 12, letters |-> 12],
     [word |-> "Email", len |-> 5, letters |-> 5],
     [word |-> "Termin", len |-> 6, letters |-> 6],
     [word |-> "Montag", len |-> 6, letters |-> 6],
     [word |-> "Januar", len |-> 6, letters |-> 6]}
        \cup {c \in [word : {"?"}, len : {2, 5, 10, 30, 31}, letters : 0..31] :
                 c.letters <= c.len}

\* not name, the two length bounds, and letter_count >= len(name) * 0.8.
_is_valid_name(name) ==
    /\ name.len >= 2
    /\ name.len <= 30
    /\ name.letters * 10 >= name.len * 8

IsValidName ==
    /\ applied.fn = "input"
    /\ "name" \in DOMAIN applied
    /\ applied' = [fn |-> "_is_valid_name", name |-> applied.name,
                   value |-> _is_valid_name(applied.name)]
    /\ UNCHANGED <<customers, outbox, turn, plain, booked, msg>>
    /\ UNCHANGED aside_vars
    /\ UNCHANGED flow_vars

InitValidName ==
    /\ InitFlow
    /\ InitAside
    /\ customers = EmptyDict
    /\ outbox = <<>>
    /\ turn = 0
    /\ plain = FALSE
    /\ booked = FALSE
    /\ msg = NoMsg
    /\ applied \in {[fn |-> "input", name |-> n] : n \in CandidateNames}

SpecValidName == InitValidName /\ [][IsValidName]_vars

\* ------------------------------------------------ one POST to /webhook

\* The number of messages in the payload of one POST.
MaxPayload == 3

\* The message ids of a payload; an id can come twice.
Payloads == SeqsUpTo({1, 2, 3}, MaxPayload) \ {<<>>}

NoResponse == [status |-> 0, success |-> FALSE]

\* One pass of the loop of _process_change inside webhook(): raised keeps,
\* per message, whether its handler raised.  An exception that left the
\* handler would leave webhook() too, and the server would answer 500.
WebhookMessage ==
    /\ applied.fn = "webhook"
    /\ applied.response = NoResponse
    /\ applied.i <= Len(applied.messages)
    /\ \E raises \in BOOLEAN :
          /\ ProcessMessage(applied.messages[applied.i], raises)
          /\ applied' = IF propagates(raises)
                        THEN [applied EXCEPT !.response = [status |-> 500,
                                                           success |-> FALSE]]
                        ELSE [applied EXCEPT !.i = @ + 1, !.raised = Append(@, raises)]

\* return jsonify(success=True), 200
WebhookReturn ==
    /\ applied.fn = "webhook"
    /\ applied.response = NoResponse
    /\ applied.i > Len(applied.messages)
    /\ applied' = [applied EXCEPT !.response = [status |-> 200, success |-> TRUE]]
    /\ UNCHANGED <<customers, outbox, turn, plain, booked, msg>>
    /\ UNCHANGED aside_vars
    /\ UNCHANGED flow_vars

InitPayload ==
    /\ InitFlow
    /\ InitAside
    /\ customers = EmptyDict
    /\ outbox = <<>>
    /\ turn = 0
    /\ plain = FALSE
    /\ booked = FALSE
    /\ msg = NoMsg
    /\ applied \in {[fn |-> "webhook", messages |-> p, i |-> 1, raised |-> <<>>,
                     response |-> NoResponse] : p \in Payloads}

NextPayload == WebhookMessage \/ WebhookReturn

SpecPayload == InitPayload /\ [][NextPayload]_vars

\* ---------------------------------------- two threads in is_duplicate

\* The threads that serve two webhook requests at the same time.
Threads == {1, 2}

\* The positions of a thread inside "with self._lock".
InsideLock == {"lookup", "add", "evict"}

\* Fault seeding: a tracker whose lock is always granted.
lock_free_always(t) == TRUE

\* Lock.acquire() succeeds when no other thread is inside the with block.
lock_free(t) == \A u \in DOMAIN threads \ {t} : threads[u].pc \notin InsideLock

\* with self._lock:
LockAcquire(t) ==
    /\ threads[t].pc = "call"
    /\ lock_free(t)
    /\ threads' = [threads EXCEPT ![t].pc = "lookup"]
    /\ UNCHANGED <<_messages, passed>>

\* if msg_id in self._messages: return True (the lock is released)
Lookup(t) ==
    /\ threads[t].pc = "lookup"
    /\ threads' = IF \E i \in 1..Len(_messages) : _messages[i] = threads[t].msg_id
                  THEN [threads EXCEPT ![t].pc = "done", ![t].duplicate = TRUE]
                  ELSE [threads EXCEPT ![t].pc = "add"]
    /\ UNCHANGED <<_messages, passed>>

\* self._messages[msg_id] = True
AddMessage(t) ==
    /\ threads[t].pc = "add"
    /\ _messages' = IF \E i \in 1..Len(_messages) : _messages[i] = threads[t].msg_id
                    THEN _messages ELSE Append(_messages, threads[t].msg_id)
    /\ threads' = [threads EXCEPT ![t].pc = "evict"]
    /\ UNCHANGED passed

\* The eviction loop and return False (the lock is released); the caller
\* hands the message to _handle_text_message.
EvictAndReturn(t) ==
    /\ threads[t].pc = "evict"
    /\ _messages' = IF Len(_messages) > max_size
                    THEN SubSeq(_messages, Len(_messages) - max_size + 1, Len(_messages))
                    ELSE _messages
    /\ threads' = [threads EXCEPT ![t].pc = "done", ![t].duplicate = FALSE]
    /\ passed' = Append(passed, threads[t].msg_id)

TrackerStep(t) ==
    /\ \/ LockAcquire(t)
       \/ Lookup(t)
       \/ AddMessage(t)
       \/ EvictAndReturn(t)
    /\ UNCHANGED <<customers, outbox, turn, plain, booked, msg, applied, memory_file>>
    /\ UNCHANGED flow_vars

\* The ids tracked when the two requests arrive, and the ids they carry.
InitTracker ==
    /\ InitFlow
    /\ customers = EmptyDict
    /\ outbox = <<>>
    /\ turn = 0
    /\ plain = FALSE
    /\ booked = FALSE
    /\ msg = NoMsg
    /\ _messages \in SeqsUpTo({1, 2, 3}, 1)
    /\ applied = [fn |-> "is_duplicate", tracked |-> _messages]
    /\ passed = <<>>
    /\ threads \in [Threads -> {[pc |-> "call", msg_id |-> id, duplicate |-> FALSE] :
                                   id \in {1, 2, 3}}]
    /\ memory_file = NotTracked

NextTracker == \E t \in Threads : TrackerStep(t)

SpecTracker == InitTracker /\ [][NextTracker]_vars

\* ------------------------------------- two handlers in update_profil

\* Two webhook requests for the same phone, each served by its own thread.
\* CustomerService holds no lock: a thread can be preempted between any two
\* statements of update_profil and save.

\* The order in which a dict of the extraction lists its keys.
KeyOrder == <<"vorname", "nachname", "email", "datum", "uhrzeit">>

Keys(profil_data) == SelectSeq(KeyOrder, LAMBDA key : key \in DOMAIN profil_data)

\* The profil_data of the two calls.
ProfilUpdates ==
    {[datum |-> GoodDate, uhrzeit |-> T1400],
     [datum |-> BadDate, uhrzeit |-> T1200],
     [vorname |-> "Max", email |-> "max@test.de"],
     [vorname |-> "Erika"],
     [uhrzeit |-> T1400]}

\* for key, value in profil_data.items(): one pass of the loop.
AssignKey(t) ==
    /\ threads[t].pc = "items"
    /\ LET keys == Keys(threads[t].profil_data)
           key == keys[threads[t].i]
           value == threads[t].profil_data[key]
       IN /\ customers' =
                IF value # NoneOf(key) /\ key \in DOMAIN customers[Phone].profil
                THEN [customers EXCEPT ![Phone].profil[key] = value]
                ELSE customers
          /\ threads' = [threads EXCEPT ![t].i = @ + 1,
                                        ![t].pc = IF threads[t].i = Len(keys)
                                                  THEN "name" ELSE "items"]
    /\ UNCHANGED memory_file

\* customer["name"] = profil_data["vorname"], when there is one.
AssignName(t) ==
    /\ threads[t].pc = "name"
    /\ customers' = IF Get(threads[t].profil_data, "vorname") # None
                    THEN [customers EXCEPT ![Phone].name = threads[t].profil_data.vorname]
                    ELSE customers
    /\ threads' = [threads EXCEPT ![t].pc = "open"]
    /\ UNCHANGED memory_file

\* save(): open(self.memory_file, "w") empties the file, json.dump writes
\* the customers as they are into the buffer of the file object, and
\* leaving the with block writes the buffer out.
SaveOpen(t) ==
    /\ threads[t].pc = "open"
    /\ memory_file' = EmptyDict
    /\ threads' = [threads EXCEPT ![t].pc = "dump"]
    /\ UNCHANGED customers

SaveDump(t) ==
    /\ threads[t].pc = "dump"
    /\ threads' = [threads EXCEPT ![t].pc = "close", ![t].dumped = customers]
    /\ UNCHANGED <<customers, memory_file>>

SaveClose(t) ==
    /\ threads[t].pc = "close"
    /\ memory_file' = threads[t].dumped
    /\ threads' = [threads EXCEPT ![t].pc = "done"]
    /\ UNCHANGED customers

ThreadStep(t) ==
    /\ \/ AssignKey(t)
       \/ AssignName(t)
       \/ SaveOpen(t)
       \/ SaveDump(t)
       \/ SaveClose(t)
    /\ UNCHANGED <<outbox, turn, plain, booked, msg, applied, _messages, passed>>
    /\ UNCHANGED flow_vars

InitStore ==
    /\ InitFlow
    /\ customers \in {[p \in {Phone} |-> c] : c \in StoredCustomers}
    /\ outbox = <<>>
    /\ turn = 0
    /\ plain = FALSE
    /\ booked = FALSE
    /\ msg = NoMsg
    /\ applied = NotApplied
    /\ _messages = <<>>
    /\ passed = <<>>
    /\ threads \in [Threads -> {[pc |-> "items", profil_data |-> u, i |-> 1,
                                 dumped |-> EmptyDict] : u \in ProfilUpdates}]
    /\ memory_file = customers

NextStore == \E t \in Threads : ThreadStep(t)

SpecStore == InitStore /\ [][NextStore]_vars

\* ----------------------------------------------- the pre-check on its own

\* The day slots of the test fixture SLOTS_AVAILABLE, and the same slots in
\* an order that is not the order of the day.
SLOTS_AVAILABLE == <<<<9, 0>>, <<10, 0>>, <<11, 0>>, <<14, 0>>, <<15, 0>>, <<16, 0>>>>
SlotsOutOfOrder == <<<<9, 0>>, <<16, 0>>, <<11, 0>>, <<14, 0>>, <<10, 0>>, <<15, 0>>>>

\* The slots of a list at the positions of a set, in list order.
RECURSIVE Pick(_, _)
Pick(starts, positions) ==
    IF starts = <<>> THEN <<>>
    ELSE LET rest == Pick(SubSeq(starts, 1, Len(starts) - 1), positions)
         IN IF Len(starts) \in positions
            THEN Append(rest, [startDateTime |-> starts[Len(starts)]])
            ELSE rest

DaySlotLists ==
    {Pick(starts, positions) : starts \in {SLOTS_AVAILABLE, SlotsOutOfOrder},
                               positions \in SUBSET (1..Len(SLOTS_AVAILABLE))}

RequestedDatetimes ==
    [shape : {"iso", "noT"}, date : {GoodDate}, time : {T1200, <<10, 0>>, <<15, 30>>}]
        \cup [shape : {"iso", "isoH"}, date : {GoodDate}, time : {<<9, 0>>}]

\* check_slot_availability behind a slots request answered with the list.
CheckSlotAvailability ==
    /\ applied.fn = "input"
    /\ applied' = [fn |-> "check_slot_availability",
                   start_datetime |-> applied.start_datetime, slots |-> applied.slots,
                   value |-> check_slot_availability(applied.start_datetime,
                                                     [success |-> TRUE,
                                                      slots |-> applied.slots])]
    /\ UNCHANGED <<customers, outbox, turn, plain, booked, msg>>
    /\ UNCHANGED aside_vars
    /\ UNCHANGED flow_vars

InitPrecheck ==
    /\ InitFlow
    /\ InitAside
    /\ customers = EmptyDict
    /\ outbox = <<>>
    /\ turn = 0
    /\ plain = FALSE
    /\ booked = FALSE
    /\ msg = NoMsg
    /\ applied \in {[fn |-> "input", start_datetime |-> start, slots |-> slots] :
                       start \in RequestedDatetimes, slots \in DaySlotLists}

NextPrecheck == CheckSlotAvailability

SpecPrecheck == InitPrecheck /\ [][NextPrecheck]_vars

\* -------------------------------------------- update_profil on its own

\* The number of calls of update_profil with the same profil_data.
MaxUpdates == 2

\* The profil_data of the calls: values for stored keys, None values, keys
\* the profile does not have, and the name and status keys.
ProfilDatas ==
    ProfilUpdates
        \cup {[vorname |-> None, email |-> "max@test.de", hobby |-> "Yoga"],
              [datum |-> NoDate, uhrzeit |-> T1200],
              [hobby |-> "Yoga"],
              [name |-> "Erika", nachname |-> "Muster"],
              [status |-> TRIAL_BOOKED, alter |-> "30"],
              EmptyDict}

UpdateProfil ==
    /\ applied.fn \in {"input", "update_profil"}
    /\ turn < MaxUpdates
    /\ customers' = update_profil(customers, Phone, applied.profil_data)
    /\ applied' = [fn |-> "update_profil", profil_data |-> applied.profil_data]
    /\ turn' = turn + 1
    /\ UNCHANGED <<outbox, plain, booked, msg>>
    /\ UNCHANGED aside_vars
    /\ UNCHANGED flow_vars

InitProfil ==
    /\ InitFlow
    /\ InitAside
    /\ customers \in {EmptyDict} \cup {[p \in {Phone} |-> c] : c \in StoredCustomers}
    /\ outbox = <<>>
    /\ turn = 0
    /\ plain = FALSE
    /\ booked = FALSE
    /\ msg = NoMsg
    /\ applied \in {[fn |-> "input", profil_data |-> d] : d \in ProfilDatas}

NextProfil == UpdateProfil

SpecProfil == InitProfil /\ [][NextProfil]_vars

\* ------------------------------------- the calls of CustomerService

\* The number of calls of CustomerService in a row.
MaxCalls == 3

\* get, update_profil, update_status and update_history, called in any
\* order on the one phone.
CallService ==
    /\ applied.fn \in {"start", "get", "update_profil", "update_status", "update_history"}
    /\ turn < MaxCalls
    /\ \/ /\ customers' = get(customers, Phone)
          /\ applied' = [fn |-> "get", profil_data |-> EmptyDict]
       \/ \E profil_data \in ProfilDatas :
             /\ customers' = update_profil(customers, Phone, profil_data)
             /\ applied' = [fn |-> "update_profil", profil_data |-> profil_data]
       \/ \E status \in {NEW_LEAD, NAME_KNOWN, TRIAL_BOOKED} :
             /\ customers' = update_status(customers, Phone, status)
             /\ applied' = [fn |-> "update_status", profil_data |-> EmptyDict]
       \/ /\ customers' = update_history(customers, Phone, 201, 301)
          /\ applied' = [fn |-> "update_history", profil_data |-> EmptyDict]
    /\ turn' = turn + 1
    /\ UNCHANGED <<outbox, plain, booked, msg>>
    /\ UNCHANGED aside_vars
    /\ UNCHANGED flow_vars

InitCalls ==
    /\ InitFlow
    /\ InitAside
    /\ customers \in {EmptyDict}
          \cup {[p \in {Phone} |-> c] :
                   c \in {s \in StoredCustomers : s.profil.magicline_customer_id = None}}
    /\ outbox = <<>>
    /\ turn = 0
    /\ plain = FALSE
    /\ booked = FALSE
    /\ msg = NoMsg
    /\ applied = [fn |-> "start", profil_data |-> EmptyDict]

NextCalls == CallService

SpecCalls == InitCalls /\ [][NextCalls]_vars

\* ------------------------------------------- update_history on its own

\* The number of update_history calls in a row.
MaxAppends == 3

\* The lengths of the histories the store starts with: the lengths that
\* update_history leaves are the even ones up to max_history.
StoredLengths == {0, 80, 96, 98, 100}

\* A stored history of n entries, the i-th with content i.
StoredHistory(n) ==
    [i \in 1..n |-> [role |-> IF i % 2 = 1 THEN "user" ELSE "assistant", content |-> i]]

UserMessages == {201, 202}
BotReplies == {301, 302}

UpdateHistory ==
    /\ applied.fn \in {"input", "update_history"}
    /\ turn < MaxAppends
    /\ \E user_msg \in UserMessages, bot_reply \in BotReplies :
          /\ customers' = update_history(customers, Phone, user_msg, bot_reply)
          /\ applied' = [fn |-> "update_history", user_msg |-> user_msg,
                         bot_reply |-> bot_reply]
    /\ turn' = turn + 1
    /\ UNCHANGED <<outbox, plain, booked, msg>>
    /\ UNCHANGED aside_vars
    /\ UNCHANGED flow_vars

InitHistory ==
    /\ InitFlow
    /\ InitAside
    /\ customers \in {EmptyDict}
          \cup {[p \in {Phone} |-> [NewCustomer EXCEPT !.history = StoredHistory(n)]] :
                   n \in StoredLengths}
    /\ outbox = <<>>
    /\ turn = 0
    /\ plain = FALSE
    /\ booked = FALSE
    /\ msg = NoMsg
    /\ applied = [fn |-> "input"]

NextHistory == UpdateHistory

SpecHistory == InitHistory /\ [][NextHistory]_vars

\* ---------------------------------------- extract_booking_intent on texts

\* The words of the texts and replies, and str.lower() on them.
IntentWords == {"Probetraining", "TERMIN", "Hallo", "20.01.2025", "15:00", "Morgen"}

lower(word) ==
    CASE word = "Probetraining" -> "probetraining"
      [] word = "TERMIN" -> "termin"
      [] word = "Hallo" -> "hallo"
      [] word = "Morgen" -> "morgen"
      [] OTHER -> word

\* The booking_keywords that are single words.
booking_keywords ==
    {"probetraining", "probentraining", "termin", "buchen", "buchung", "gebucht",
     "anmelden", "anmeldung", "reservieren", "reservierung", "vorbeikommen",
     "ausprobieren", "testen", "probieren", "einbuchen", "eintragen"}

\* The words the date patterns and the time patterns match.
MatchesDatePattern(word) == word \in {"20.01.2025", "morgen"}
MatchesTimePattern(word) == word \in {"15:00"}

\* (text + reply).lower(), word by word.
Combined(text, reply) == [i \in 1..Len(text \o reply) |-> lower((text \o reply)[i])]

HasBookingKeyword(combined) == \E i \in 1..Len(combined) : combined[i] \in booking_keywords
HasDate(combined) == \E i \in 1..Len(combined) : MatchesDatePattern(combined[i])
HasTime(combined) == \E i \in 1..Len(combined) : MatchesTimePattern(combined[i])

IntentTexts == SeqsUpTo(IntentWords, 2)
IntentReplies == {<<>>, <<"TERMIN">>, <<"Morgen">>}
CustomerContexts == [has_booking_data : BOOLEAN, has_partial_datetime : BOOLEAN]

ExtractBookingIntent ==
    /\ applied.fn = "input"
    /\ "customer_context" \in DOMAIN applied
    /\ LET combined == Combined(applied.text, applied.reply)
       IN applied' = [fn |-> "extract_booking_intent",
                      text |-> applied.text, reply |-> applied.reply,
                      customer_context |-> applied.customer_context,
                      value |-> extract_booking_intent(HasBookingKeyword(combined),
                                                       HasDate(combined), HasTime(combined),
                                                       applied.customer_context)]
    /\ UNCHANGED <<customers, outbox, turn, plain, booked, msg>>
    /\ UNCHANGED aside_vars
    /\ UNCHANGED flow_vars

InitIntent ==
    /\ InitFlow
    /\ InitAside
    /\ customers = EmptyDict
    /\ outbox = <<>>
    /\ turn = 0
    /\ plain = FALSE
    /\ booked = FALSE
    /\ msg = NoMsg
    /\ applied \in {[fn |-> "input", text |-> t, reply |-> r, customer_context |-> c] :
                       t \in IntentTexts, r \in IntentReplies, c \in CustomerContexts}

NextIntent == ExtractBookingIntent

SpecIntent == InitIntent /\ [][NextIntent]_vars

\* ------------------------------------------------ extract_date_only

\* The date forms extract_date_only reads in a text, in the order it tries
\* them: the word morgen, the word uebermorgen, DD.MM.YYYY, and the
\* year-less DD.MM. and DD.MM; day and month are the one or two digits the
\* pattern matched (0 where the form has none).
DateTexts ==
    [form : {"none", "morgen", "uebermorgen"}, day : {0}, month : {0}, year : {0}]
        \cup [form : {"DD.MM.YYYY"}, day : {6, 20, 29, 31}, month : {1, 2, 13},
              year : {1999, 2026}]
        \cup [form : {"DD.MM."}, day : {6, 20, 29, 31}, month : {1, 2, 13}, year : {0}]

\* candidate < now - timedelta(days): candidate is a day at 00:00.
EarlierThanDaysBefore(candidate, now, days) ==
    \/ toordinal(candidate) < toordinal(now.date) - days
    \/ toordinal(candidate) = toordinal(now.date) - days /\ ~now.at_midnight

\* None stands for the ValueError of datetime(year, month, day).
_build_date_with_smart_year(day, month, now) ==
    LET year == now.date[1]
    IN IF ~IsCalendar(<<year, month, day>>, <<0, 0>>) THEN NoDate
       ELSE IF EarlierThanDaysBefore(<<year, month, day>>, now, MaxPastDays)
       THEN (IF IsCalendar(<<year + 1, month, day>>, <<0, 0>>)
             THEN <<year + 1, month, day>> ELSE NoDate)
       ELSE <<year, month, day>>

\* f"{year}-{month.zfill(2)}-{day.zfill(2)}" for the full form: the digits
\* as they were matched.
extract_date_only(text, now) ==
    CASE text.form = "morgen" -> NextDay(now.date)
      [] text.form = "uebermorgen" -> NextDay(NextDay(now.date))
      [] text.form = "DD.MM.YYYY" -> <<text.year, text.month, text.day>>
      [] text.form = "DD.MM." -> _build_date_with_smart_year(text.day, text.month, now)
      [] OTHER -> NoDate

ExtractDateOnly ==
    /\ applied.fn = "input"
    /\ "form" \in DOMAIN applied.text
    /\ applied' = [fn |-> "extract_date_only", text |-> applied.text, now |-> applied.now,
                   value |-> extract_date_only(applied.text, applied.now)]
    /\ UNCHANGED <<customers, outbox, turn, plain, booked, msg>>
    /\ UNCHANGED aside_vars
    /\ UNCHANGED flow_vars

InitDateOnly ==
    /\ InitFlow
    /\ InitAside
    /\ customers = EmptyDict
    /\ outbox = <<>>
    /\ turn = 0
    /\ plain = FALSE
    /\ booked = FALSE
    /\ msg = NoMsg
    /\ applied \in {[fn |-> "input", text |-> t, now |-> n] : t \in DateTexts, n \in Nows}

NextDateOnly == ExtractDateOnly

SpecDateOnly == InitDateOnly /\ [][NextDateOnly]_vars

\* ============================================================= properties

\* The endpoint of the last request of the running flow.
LastCall == IF calls = <<>> THEN "none" ELSE calls[Len(calls)]

\* The steps of try_book_trial_offer in the order of the code.
TrialOfferOrder ==
    <<"get_available_slots", "validate_lead", "create_lead",
      "validate_appointment_for_lead", "book_appointment_for_lead">>

\* C1: in try_book_trial_offer, when the slots request is answered with
\* HTTP 200 and no returned slot starts at the requested HH:MM (other slots
\* or none at all), the flow returns (False, message, None) with the slots
\* GET as its only request: no lead endpoint is called.
C1_PrecheckMissReturnsEarly ==
    (/\ flow = "try_book_trial_offer"
     /\ LastCall = "get_available_slots"
     /\ answer.kind = "http" /\ answer.status = 200
     /\ \A i \in 1..Len(answer.slots) :
            answer.slots[i].startDateTime # start_datetime.time)
        => /\ pc = "returned"
           /\ ~result.raised /\ ~result.success
           /\ result.message # NoMessage
           /\ result.booking_id = None
           /\ calls = <<"get_available_slots">>

\* The requested time is missing from a day that has other slots.
C1_Witness ==
    /\ flow = "try_book_trial_offer" /\ pc = "returned"
    /\ calls = <<"get_available_slots">>
    /\ answer.status = 200 /\ Len(answer.slots) = MaxSlots
    /\ \A i \in 1..Len(answer.slots) : answer.slots[i].startDateTime # start_datetime.time
    /\ result.message.id = "SLOT_UNAVAILABLE_WITH_ALTERNATIVES"

\* C2: the requests of try_book_trial_offer follow the order slots
\* pre-check, validate_lead, create_lead, validate_appointment_for_lead,
\* book_appointment_for_lead; create_lead is requested only after
\* validate_lead returned success, validate_appointment_for_lead only after
\* create_lead returned a leadCustomerId, book_appointment_for_lead only
\* after the validation returned validationStatus "AVAILABLE".
C2_StepsInOrderAndGated ==
    flow = "try_book_trial_offer"
        => /\ \E skipped \in 0..1 :
                /\ Len(calls) + skipped <= Len(TrialOfferOrder)
                /\ \A i \in 1..Len(calls) : calls[i] = TrialOfferOrder[i + skipped]
           /\ pc = "get_available_slots" => calls = <<>>
           /\ pc = "validate_lead" => LastCall \in {"none", "get_available_slots"}
           /\ pc = "create_lead"
                => /\ LastCall = "validate_lead"
                   /\ answer.kind = "http" /\ answer.status = 200
                   /\ answer.success # "false"
           /\ pc = "validate_appointment_for_lead"
                => /\ LastCall = "create_lead"
                   /\ answer.kind = "http" /\ answer.status = 200
                   /\ answer.leadCustomerId # None
           /\ pc = "book_appointment_for_lead"
                => /\ LastCall = "validate_appointment_for_lead"
                   /\ answer.kind = "http"
                   /\ answer.validationStatus = "AVAILABLE"

\* The flow stands before the booking request with all four earlier
\* requests behind it.
C2_Witness ==
    /\ flow = "try_book_trial_offer"
    /\ pc = "book_appointment_for_lead"
    /\ calls = SubSeq(TrialOfferOrder, 1, 4)

\* C5 (as the specification states it): try_book and try_book_trial_offer
\* end by returning a tuple for every start_datetime and every provider
\* behaviour; a tuple without success is (False, message, None); no
\* exception leaves the flow.
C5_NoExceptionEscapes ==
    pc = "returned"
        => /\ ~result.raised
           /\ ~result.success => result.booking_id = None /\ result.message # NoMessage

\* C7: when validate_lead does not return success, try_book_trial_offer
\* returns without requesting create_lead, with BOOKING_NETWORK_ERROR for a
\* network exception, BOOKING_SERVER_ERROR for a status of 500 or above and
\* BOOKING_VALIDATION_FAILED for every other answer.
C7_ValidateLeadFailureClasses ==
    (/\ flow = "try_book_trial_offer"
     /\ LastCall = "validate_lead"
     /\ ~(answer.kind = "http" /\ answer.status = 200 /\ answer.success # "false"))
        => /\ pc = "returned"
           /\ result = Return(FALSE,
                              IF answer.kind = "net" THEN BOOKING_NETWORK_ERROR
                              ELSE IF answer.status >= 500 THEN BOOKING_SERVER_ERROR
                              ELSE BOOKING_VALIDATION_FAILED,
                              None)

\* validate_lead answered with HTTP 500.
C7_Witness ==
    /\ flow = "try_book_trial_offer" /\ pc = "returned"
    /\ LastCall = "validate_lead"
    /\ answer.kind = "http" /\ answer.status = 500
    /\ result.message = BOOKING_SERVER_ERROR

\* C8: when the slots request itself fails (network exception or a status
\* other than 200), try_book_trial_offer does not return at the pre-check
\* but goes on to validate_lead, and what it returns or raises in the end is
\* what steps 1 to 4 alone produce from the same answers.
C8_PrecheckFailureFallsThrough ==
    flow = "try_book_trial_offer"
        => /\ (/\ LastCall = "get_available_slots"
               /\ answer.kind = "net" \/ answer.status # 200)
                => /\ pc = "validate_lead"
                   /\ slot_check.api_error
           /\ (/\ Len(calls) > 1 /\ calls[1] = "get_available_slots"
               /\ slot_check.api_error)
                => LET alone == legacy_four_steps(LastCall, answer, start_datetime)
                   IN IF pc = "returned" THEN result = alone ELSE ~alone.ret

\* The slots request failed and the flow still booked.
C8_Witness ==
    /\ flow = "try_book_trial_offer" /\ pc = "returned"
    /\ calls = TrialOfferOrder
    /\ slot_check.api_error
    /\ result.success

\* C9 (as the specification states it): in every returned tuple success is
\* True exactly when booking_id is not None.
C9_SuccessIffBookingId ==
    (pc = "returned" /\ ~result.raised)
        => (result.success <=> result.booking_id # None)

\* C10: try_book requests book_appointment only after validate_slot
\* returned validationStatus "AVAILABLE"; after any other status, an
\* error-shaped result or a network failure it returns
\* (False, BOOKING_SLOT_UNAVAILABLE, None) with no booking request.
C10_BookOnlyWhenAvailable ==
    flow = "try_book"
        => /\ pc = "book_appointment"
                => /\ calls = <<"validate_slot">>
                   /\ answer.kind = "http" /\ answer.validationStatus = "AVAILABLE"
           /\ "book_appointment" \in {calls[i] : i \in 1..Len(calls)}
                => calls = <<"validate_slot", "book_appointment">>
           /\ (/\ LastCall = "validate_slot"
               /\ answer.kind = "net" \/ answer.validationStatus # "AVAILABLE")
                => /\ pc = "returned"
                   /\ result = Return(FALSE, BOOKING_SLOT_UNAVAILABLE, None)
                   /\ calls = <<"validate_slot">>

\* validate_slot answered NOT_AVAILABLE.
C10_Witness ==
    /\ flow = "try_book" /\ pc = "returned"
    /\ calls = <<"validate_slot">>
    /\ answer.kind = "http" /\ answer.validationStatus = "NOT_AVAILABLE"

\* C3 (as the specification states it): once a turn has ended with a
\* successful booking, a later message without date, time or booking
\* keyword does not start try_book or try_book_trial_offer.
C3_NoRebookingOnPlainMessage ==
    (booked /\ plain) => flow = "none"

\* C4 (as the specification states it): when the booking flow of a turn
\* returned success, the turn ends with last_booking_id holding the returned
\* booking id and with the status TRIAL_BOOKED.
C4_SuccessIsPersisted ==
    [][(/\ pc = "returned" /\ flow # "none"
        /\ ~result.raised /\ result.success
        /\ pc' = "idle")
            => /\ customers'[Phone].profil.last_booking_id = result.booking_id
               /\ customers'[Phone].status = TRIAL_BOOKED]_vars

\* C6 (as the specification states it): for an existing customer with date
\* and time resolved, a validate-slot answer of HTTP 500 ends the turn with
\* the BOOKING_SERVER_ERROR reply.
C6_ServerErrorReply ==
    [][(/\ pc = "returned" /\ flow = "try_book"
        /\ calls = <<"validate_slot">>
        /\ answer.kind = "http" /\ answer.status = 500
        /\ pc' = "idle")
            => outbox' = Append(outbox, FailureReply(BOOKING_SERVER_ERROR))]_vars

\* C11: a turn runs at most one booking flow, chosen by the
\* magicline_customer_id of the profile alone: with an id it is try_book,
\* which requests no slots or lead endpoint; without an id it is
\* try_book_trial_offer.
C11_OneFlowByCustomerId ==
    [][/\ flow' = "try_book"
            => /\ customers'[Phone].profil.magicline_customer_id # None
               /\ \A i \in 1..Len(calls') :
                      calls'[i] \in {"validate_slot", "book_appointment"}
       /\ flow' = "try_book_trial_offer"
            => /\ customers'[Phone].profil.magicline_customer_id = None
               /\ \A i \in 1..Len(calls') :
                      calls'[i] \in {TrialOfferOrder[k] : k \in 1..Len(TrialOfferOrder)}
       /\ (flow' # flow /\ flow' # "none") => (flow = "none" /\ turn' = turn + 1)
       /\ (flow' # flow /\ flow # "none") => (flow' = "none" /\ turn' = turn)]_vars

\* An existing customer's turn went through both requests of try_book.
C11_Witness ==
    /\ flow = "try_book" /\ pc = "returned"
    /\ calls = <<"validate_slot", "book_appointment">>
    /\ customers[Phone].profil.magicline_customer_id # None
    /\ customers[Phone].profil.vorname # None

\* C12: the booking protocol is invoked only with a date and a time
\* resolved (they are the start_datetime and stand in the profile) and, for
\* a lead, with first name, last name and email present; a turn that does
\* not invoke it sends a reply and makes no provider request.
C12_InvokedOnlyWhenComplete ==
    [][/\ flow' # "none"
            => /\ start_datetime'.shape = "iso"
               /\ start_datetime'.date # NoDate /\ start_datetime'.time # NoTime
               /\ start_datetime'.date = customers'[Phone].profil.datum
               /\ start_datetime'.time = customers'[Phone].profil.uhrzeit
       /\ flow' = "try_book_trial_offer"
            => /\ \/ customers'[Phone].profil.vorname # None
                  \/ customers'[Phone].name # DEFAULT_NAME
               /\ customers'[Phone].profil.nachname # None
               /\ customers'[Phone].profil.email # None
       /\ flow' = "none" => calls' = <<>>
       /\ (turn' = turn + 1 /\ flow' = "none")
            => Len(outbox') = Len(outbox) + 1]_vars

\* A lead with complete data has the trial-offer flow started.
C12_Witness ==
    /\ flow = "try_book_trial_offer" /\ pc = "get_available_slots"
    /\ customers[Phone].profil.email # None
    /\ customers[Phone].profil.magicline_customer_id = None

\* The profile as _handle_booking_if_needed finds it in the turn that
\* handles msg, and the booking intent of that turn: a date or time cue
\* together with a keyword, a stored identity or a stored date or time, or
\* a profile that is complete already.
ResolverEntry == before_booking(customers, Phone, msg)[Phone].profil

TurnIntent ==
    LET identity == /\ ResolverEntry.vorname # None /\ ResolverEntry.nachname # None
                    /\ ResolverEntry.email # None
        partial == ResolverEntry.datum # NoDate \/ ResolverEntry.uhrzeit # NoTime
    IN \/ /\ msg.has_booking_keyword \/ identity \/ partial
          /\ msg.has_date \/ msg.has_time
       \/ identity /\ ResolverEntry.datum # NoDate /\ ResolverEntry.uhrzeit # NoTime

NewDate == IF msg.date # NoDate THEN msg.date ELSE msg.extracted_data.datum
NewTime == IF msg.time # NoTime THEN msg.time ELSE msg.extracted_data.uhrzeit

\* C14: a turn with booking intent that yields a date and no time (or a
\* time and no date) stores the value; a text without a booking keyword
\* that holds only the other value, met by a stored date (or time), is
\* taken as booking intent and resolves the pair from the stored and the
\* new value.
C14_PartialDatetimeCompletes ==
    [][(turn = 0 /\ turn' = 1)
        => LET p == customers'[Phone].profil
           IN /\ (/\ TurnIntent /\ NewDate # NoDate /\ NewTime = NoTime
                  /\ ResolverEntry.uhrzeit = NoTime)
                    => p.datum = NewDate /\ p.uhrzeit = NoTime
              /\ (/\ TurnIntent /\ NewTime # NoTime /\ NewDate = NoDate
                  /\ ResolverEntry.datum = NoDate)
                    => p.uhrzeit = NewTime /\ p.datum = NoDate
              /\ (/\ Phone \in DOMAIN customers
                  /\ customers[Phone].profil.datum # NoDate
                  /\ customers[Phone].profil.uhrzeit = NoTime
                  /\ ~msg.has_booking_keyword /\ ~msg.has_date /\ msg.date = NoDate
                  /\ msg.has_time /\ msg.time # NoTime)
                    => /\ p.datum = customers[Phone].profil.datum /\ p.uhrzeit = msg.time
                       /\ \/ /\ flow' # "none"
                             /\ start_datetime' = [shape |-> "iso", date |-> p.datum,
                                                   time |-> msg.time]
                          \/ /\ flow' = "none"
                             /\ outbox'[1].id = "MISSING_BOOKING_DATA"
              /\ (/\ Phone \in DOMAIN customers
                  /\ customers[Phone].profil.uhrzeit # NoTime
                  /\ customers[Phone].profil.datum = NoDate
                  /\ ~msg.has_booking_keyword /\ ~msg.has_time /\ msg.time = NoTime
                  /\ msg.has_date /\ msg.date # NoDate)
                    => /\ p.uhrzeit = customers[Phone].profil.uhrzeit /\ p.datum = msg.date
                       /\ \/ /\ flow' # "none"
                             /\ start_datetime' = [shape |-> "iso", date |-> msg.date,
                                                   time |-> p.uhrzeit]
                          \/ /\ flow' = "none"
                             /\ outbox'[1].id = "MISSING_BOOKING_DATA"]_vars

\* C15: a turn that starts with a stored profile holding every field of its
\* path (date and time with magicline_customer_id for an existing customer;
\* date, time, first name, last name and email for a lead) invokes the
\* booking protocol, also on a message without keyword, date or time.
C15_CompleteProfileInvokesBooking ==
    [][(/\ turn = 0 /\ turn' = 1
        /\ Phone \in DOMAIN customers
        /\ customers[Phone].profil.datum # NoDate
        /\ customers[Phone].profil.uhrzeit # NoTime
        /\ \/ customers[Phone].profil.magicline_customer_id # None
           \/ /\ customers[Phone].profil.vorname # None
              /\ customers[Phone].profil.nachname # None
              /\ customers[Phone].profil.email # None)
        => /\ flow' # "none"
           /\ pc' \in {"validate_slot", "get_available_slots"}]_vars

\* C16: without booking intent and without a complete stored profile,
\* _handle_booking_if_needed hands back the draft reply, requests nothing
\* from the provider and leaves the profile as it found it.
C16_NoIntentPassesDraftThrough ==
    [][(turn = 0 /\ turn' = 1 /\ ~TurnIntent)
        => /\ flow' = "none" /\ pc' = "idle" /\ calls' = <<>>
           /\ outbox' = <<LLM_DRAFT>>
           /\ customers'[Phone].profil = ResolverEntry]_vars

\* A text with a booking keyword but no date or time cue, met by a stored
\* date: the draft goes out and the profile still holds only the date.
C16_Witness ==
    /\ turn = 1 /\ flow = "none" /\ calls = <<>>
    /\ msg.has_booking_keyword /\ ~msg.has_date /\ ~msg.has_time
    /\ customers[Phone].profil.datum = GoodDate
    /\ customers[Phone].profil.uhrzeit = NoTime
    /\ outbox = <<LLM_DRAFT>>

\* C17: the turn that invoked the booking protocol sends exactly the
\* success mark with the protocol's message on success and the failure mark
\* with the protocol's message on failure, never the draft of the chat
\* model.
C17_ReplyIsMarkedProtocolMessage ==
    [][(pc = "returned" /\ flow # "none" /\ ~result.raised /\ pc' = "idle")
        => /\ Len(outbox') = Len(outbox) + 1
           /\ outbox'[Len(outbox')] =
                 [mark |-> IF result.success THEN "ok" ELSE "fail",
                  id |-> result.message.id, alts |-> result.message.alts,
                  date |-> NoDate, fields |-> <<>>]]_vars

\* C18: with booking intent, a date or time read from the text of the turn
\* replaces a different stored value and is in the profile when the first
\* provider request of the booking protocol goes out, which books that
\* value; it stays in the profile through every later step of the turn,
\* whatever the outcome of the booking.
C18_NewDatetimeSavedBeforeBooking ==
    [][/\ (turn = 0 /\ turn' = 1 /\ TurnIntent)
          => LET p == customers'[Phone].profil
             IN /\ NewDate # NoDate
                     => /\ p.datum = NewDate
                        /\ flow' # "none" => start_datetime'.date = NewDate
                /\ NewTime # NoTime
                     => /\ p.uhrzeit = NewTime
                        /\ flow' # "none" => start_datetime'.time = NewTime
       /\ (turn = 1 /\ turn' = 1)
          => /\ customers'[Phone].profil.datum = customers[Phone].profil.datum
             /\ customers'[Phone].profil.uhrzeit = customers[Phone].profil.uhrzeit]_vars

\* The date of the text replaced the date the extraction model had put in
\* the profile, the booking failed, and the profile still holds the date
\* of the text.
C18_Witness ==
    /\ turn = 1 /\ pc = "idle"
    /\ msg.date = BadDate /\ msg.extracted_data.datum = GoodDate
    /\ customers[Phone].profil.datum = BadDate
    /\ customers[Phone].profil.uhrzeit = T1400
    /\ outbox # <<>> /\ outbox[1].mark = "fail"

\* C19: for a text without a date cue the datum that extract_customer_data
\* returns is None, whatever date the extraction model proposes.
C19_NoDateWithoutDateCue ==
    (applied.fn = "extract_customer_data" /\ ~applied.text.has_date_cue)
        => applied.value.datum = NoDate

\* C20: a date in the profil output of the chat model is validated before
\* update_profil stores it: a date that the validation of the extraction
\* rejects on every day is not the stored date after the turn.
C20_ChatProfilValidated ==
    [][(/\ turn = 0 /\ turn' = 1
        /\ "datum" \in DOMAIN msg.extracted_profil
        /\ \A now \in Nows : validate_datum(msg.extracted_profil.datum, now) = NoDate)
        => customers'[Phone].profil.datum # msg.extracted_profil.datum]_vars

\* C21: across any sequence of webhook deliveries no message id passes the
\* duplicate check twice, however many other messages came in between.
C21_IdHandledAtMostOnce ==
    Cardinality({passed[i] : i \in 1..Len(passed)}) = Len(passed)

\* The store after the two calls of update_profil run one after the other.
SerialStores ==
    {update_profil(update_profil(customers, Phone, threads[1].profil_data),
                   Phone, threads[2].profil_data),
     update_profil(update_profil(customers, Phone, threads[2].profil_data),
                   Phone, threads[1].profil_data)}

\* C22: when two handlers for the same phone number run interleaved, the
\* profile in memory and in the file is the one that the two handlers leave
\* when run in some serial order.  (The serial orders are taken from the
\* end state: update_profil applied again to its own result changes
\* nothing.)
C22_SerializedPerCustomer ==
    (threads # <<>> /\ \A t \in Threads : threads[t].pc = "done")
        => \E serial \in SerialStores :
              /\ customers[Phone].profil = serial[Phone].profil
              /\ memory_file = customers

\* C23: every text message is handled to completion before the next one:
\* when the handler is back at rest, each message taken in so far has got
\* exactly one reply and exactly one user/assistant pair in the history,
\* the pair holding that reply.
C23_OneReplyAndOnePairPerMessage ==
    (pc = "idle" /\ turn > 0)
        => /\ Len(outbox) = turn
           /\ Len(customers[Phone].history) = 2 * turn
           /\ \A n \in 1..turn :
                 /\ customers[Phone].history[2 * n - 1] = [role |-> "user", content |-> n]
                 /\ 2 * n <= Len(customers[Phone].history)
                 /\ n <= Len(outbox)
                 /\ customers[Phone].history[2 * n] =
                        [role |-> "assistant", content |-> outbox[n]]

\* C24: within one invocation of try_book or try_book_trial_offer no
\* provider endpoint is requested twice, whatever the answers (failures
\* and timeouts included): try_book sends at most 2 requests and
\* try_book_trial_offer at most 5.
C24_EachEndpointAtMostOnce ==
    /\ \A i, j \in 1..Len(calls) : calls[i] = calls[j] => i = j
    /\ flow = "try_book" => Len(calls) <= 2
    /\ flow = "try_book_trial_offer" => Len(calls) <= 5

\* The trial-offer flow has sent its five requests, the last one timed out,
\* and the flow has returned.
C24_Witness ==
    /\ flow = "try_book_trial_offer" /\ pc = "returned"
    /\ Len(calls) = 5 /\ answer.kind = "net"
    /\ ~result.success

\* C25: when create_lead answers HTTP 200 with a body that carries no
\* leadCustomerId, try_book_trial_offer returns (False,
\* BOOKING_LEAD_CREATION_FAILED, None) and requests neither the appointment
\* validation nor the booking.
C25_NoLeadIdStopsTheFlow ==
    (/\ flow = "try_book_trial_offer"
     /\ LastCall = "create_lead"
     /\ answer.kind = "http" /\ answer.status = 200
     /\ answer.leadCustomerId = None)
        => /\ pc = "returned"
           /\ ~result.raised /\ ~result.success
           /\ result.message = BOOKING_LEAD_CREATION_FAILED
           /\ result.booking_id = None
           /\ \A i \in 1..Len(calls) :
                 calls[i] \notin {"validate_appointment_for_lead", "book_appointment_for_lead"}

\* create_lead was answered 200 with an empty body and the flow returned.
C25_Witness ==
    /\ flow = "try_book_trial_offer" /\ pc = "returned"
    /\ LastCall = "create_lead"
    /\ answer.kind = "http" /\ answer.status = 200
    /\ answer.success = "absent" /\ answer.leadCustomerId = None

\* C26: with the day slots 09:00, 10:00, 11:00, 14:00, 15:00, 16:00 and
\* the requested time 12:00 the pre-check returns the alternatives 11:00,
\* 14:00, 09:00, in this order.
C26_AlternativesOfTheScenario ==
    (/\ applied.fn = "check_slot_availability"
     /\ applied.slots = Pick(SLOTS_AVAILABLE, 1..6)
     /\ applied.start_datetime = [shape |-> "iso", date |-> GoodDate, time |-> T1200])
        => applied.value.alternatives = <<<<11, 0>>, <<14, 0>>, <<9, 0>>>>

\* C27: update_profil changes only the profile fields whose key is a key
\* of the default profile and whose new value is not None; every other
\* field keeps its stored value and no key is added to the profile.
C27_UpdateProfilFrame ==
    [][turn' = turn + 1
        => LET stored == IF Phone \in DOMAIN customers THEN customers[Phone].profil
                         ELSE _default_profil
               profil == customers'[Phone].profil
               profil_data == applied'.profil_data
           IN /\ DOMAIN profil = DOMAIN _default_profil
              /\ \A key \in DOMAIN profil :
                    profil[key] = IF /\ key \in DOMAIN profil_data
                                     /\ profil_data[key] # NoneOf(key)
                                  THEN profil_data[key]
                                  ELSE stored[key]]_vars

\* A call with a None first name, an email and a key the profile does not
\* have left the stored first name and stored the email.
C27_Witness ==
    /\ turn = 1
    /\ applied = [fn |-> "update_profil",
                  profil_data |-> [vorname |-> None, email |-> "max@test.de",
                                   hobby |-> "Yoga"]]
    /\ customers[Phone].profil.vorname = "Max"
    /\ customers[Phone].profil.nachname = None
    /\ customers[Phone].profil.email = "max@test.de"

\* C28: update_profil is idempotent: the second of two calls with the same
\* profil_data, nothing in between, leaves profile, name and status as the
\* first call left them.
C28_UpdateProfilIdempotent ==
    [][(turn >= 1 /\ turn' = turn + 1)
        => /\ customers'[Phone].profil = customers[Phone].profil
           /\ customers'[Phone].name = customers[Phone].name
           /\ customers'[Phone].status = customers[Phone].status]_vars

\* The same first name was written twice over a different stored one.
C28_Witness ==
    /\ turn = 2
    /\ applied = [fn |-> "update_profil", profil_data |-> [vorname |-> "Erika"]]
    /\ customers[Phone].name = "Erika"
    /\ customers[Phone].profil.vorname = "Erika"
    /\ customers[Phone].profil.nachname = "Mustermann"

\* C29: after every update_history call the stored history has at most 100
\* entries; when the append pushes it above 100 it is cut to the most
\* recent 80 entries; the last two entries are the user message and the
\* bot reply of the call.
C29_HistoryBounded ==
    [][turn' = turn + 1
        => LET before == IF Phone \in DOMAIN customers THEN customers[Phone].history
                         ELSE <<>>
               appended == before \o <<[role |-> "user", content |-> applied'.user_msg],
                                       [role |-> "assistant",
                                        content |-> applied'.bot_reply]>>
               history == customers'[Phone].history
           IN /\ Len(history) <= 100
              /\ Len(appended) > 100
                    => /\ Len(history) = 80
                       /\ \A i \in 1..80 : history[i] = appended[Len(appended) - 80 + i]
              /\ Len(history) >= 2
              /\ history[Len(history) - 1] = [role |-> "user", content |-> applied'.user_msg]
              /\ history[Len(history)] =
                     [role |-> "assistant", content |-> applied'.bot_reply]]_vars

\* A call on a history of 100 entries left the entries 23..100 and the
\* new pair.
C29_Witness ==
    /\ turn = 1
    /\ applied = [fn |-> "update_history", user_msg |-> 201, bot_reply |-> 302]
    /\ Len(customers[Phone].history) = 80
    /\ customers[Phone].history[1].content = 23
    /\ customers[Phone].history[79].content = 201
    /\ customers[Phone].history[80].content = 302

\* C30: when the pre-check finds slots but not the requested time, the
\* alternatives are at most 3 times of the day's slots, in order of
\* non-decreasing distance in minutes from the requested time, no omitted
\* slot is strictly closer than a returned one, and the requested time is
\* not among them.
C30_AlternativesClosestFirst ==
    (/\ applied.fn = "check_slot_availability"
     /\ applied.start_datetime.shape \in {"iso", "isoH"}
     /\ applied.slots # <<>>
     /\ ~applied.value.api_error
     /\ ~applied.value.available)
        => LET requested == applied.start_datetime.time
               alternatives == applied.value.alternatives
               minutes(t) == t[1] * 60 + t[2]
               distance(t) == IF minutes(t) >= minutes(requested)
                              THEN minutes(t) - minutes(requested)
                              ELSE minutes(requested) - minutes(t)
               day == {applied.slots[i].startDateTime : i \in 1..Len(applied.slots)}
               returned == {alternatives[i] : i \in 1..Len(alternatives)}
           IN /\ Len(alternatives) <= 3
              /\ returned \subseteq day
              /\ \A i, j \in 1..Len(alternatives) :
                    i < j => distance(alternatives[i]) <= distance(alternatives[j])
              /\ \A t \in day \ returned :
                    \A a \in returned : distance(t) >= distance(a)
              /\ requested \notin returned

\* C31: extract_booking_intent returns True exactly when text plus reply
\* holds a date or time cue and, in addition, a booking keyword is present
\* or the customer context has has_booking_data or has_partial_datetime
\* set; a keyword alone, and a date or time alone without context, give
\* False.
C31_IntentNeedsCueAndKeywordOrContext ==
    applied.fn = "extract_booking_intent"
        => LET words == {applied.text[i] : i \in 1..Len(applied.text)}
                            \cup {applied.reply[i] : i \in 1..Len(applied.reply)}
               cue == words \cap {"20.01.2025", "15:00", "Morgen"} # {}
               keyword == words \cap {"Probetraining", "TERMIN"} # {}
               context == \/ applied.customer_context.has_booking_data
                          \/ applied.customer_context.has_partial_datetime
           IN applied.value <=> (cue /\ (keyword \/ context))

\* A keyword alone gave False, with a context set.
C31_Witness ==
    /\ applied.fn = "extract_booking_intent"
    /\ applied.text = <<"Probetraining">>
    /\ applied.reply = <<>>
    /\ applied.customer_context.has_booking_data
    /\ ~applied.value

\* C32: a datum that extract_customer_data returns is a valid YYYY-MM-DD
\* date with year 2020 or later, not more than 365 days after now and not
\* more than 7 days before now; a proposed date outside these bounds
\* becomes None.
C32_ReturnedDatumIsBoundedIsoDate ==
    applied.fn = "extract_customer_data"
        => LET datum == applied.value.datum
               today == toordinal(applied.now.date)
               within(d) == /\ IsCalendar(d, <<0, 0>>)
                            /\ d[1] >= 2020
                            /\ toordinal(d) <= today + 365
                            /\ toordinal(d) >= today - 7
           IN /\ datum # NoDate => (Len(datum) = 3 /\ within(datum))
              /\ (/\ applied.raw_response.kind = "json"
                  /\ applied.raw_response.data.datum # NoDate
                  /\ ~within(applied.raw_response.data.datum))
                    => datum = NoDate

\* C33: every date that extract_date_only returns, for the relative
\* keywords, the DD.MM.YYYY form and the year-less forms, is a valid
\* calendar date lying within [-7 days, +366 days] of now.
C33_ExtractedDateIsNearCalendarDate ==
    (applied.fn = "extract_date_only" /\ applied.value # NoDate)
        => /\ IsCalendar(applied.value, <<0, 0>>)
           /\ toordinal(applied.value) >= toordinal(applied.now.date) - 7
           /\ toordinal(applied.value) <= toordinal(applied.now.date) + 366

\* C34: an exception raised while one text message is handled stays in
\* _handle_text_message: the POST is answered 200 with success, and the
\* remaining messages of the payload are processed.
C34_ExceptionsContained ==
    (applied.fn = "webhook" /\ applied.response # NoResponse)
        => /\ applied.response = [status |-> 200, success |-> TRUE]
           /\ Len(applied.raised) = Len(applied.messages)
           /\ \A i \in 1..Len(applied.messages) :
                 /\ \E k \in 1..Len(passed) : passed[k] = applied.messages[i]
                 /\ (/\ ~applied.raised[i]
                     /\ \A j \in 1..(i - 1) : applied.messages[j] # applied.messages[i])
                       => \E k \in 1..Len(outbox) : outbox[k] = applied.messages[i]

\* The handler of the first message raised, the second message was
\* answered and the POST too.
C34_Witness ==
    /\ applied.fn = "webhook"
    /\ applied.messages = <<1, 2>>
    /\ applied.raised = <<TRUE, FALSE>>
    /\ applied.response = [status |-> 200, success |-> TRUE]
    /\ outbox = <<2>>
    /\ passed = <<1, 2>>

\* C36: a message id is tracked before its handler runs and stays tracked
\* when the handler raises: a later delivery of the same id is skipped as
\* a duplicate, so a message whose handling raised is never answered.
C36_RaisedMessageNeverAnswered ==
    [][/\ passed' # passed
             => _messages'[Len(_messages')] = passed'[Len(passed')]
       /\ \A id \in RedeliveredIds :
             (/\ \E k \in 1..Len(passed) : passed[k] = id
              /\ \A k \in 1..Len(outbox) : outbox[k] # id)
                => /\ passed' = passed \/ passed'[Len(passed')] # id
                   /\ \A k \in 1..Len(outbox') : outbox'[k] # id]_vars

\* C35: when two threads call is_duplicate at the same time with the same
\* message id, unseen before, exactly one call returns False and the other
\* True: the message is handled by one thread only.
C35_OneThreadTakesAnUnseenId ==
    (/\ applied.fn = "is_duplicate"
     /\ threads[1].msg_id = threads[2].msg_id
     /\ \A i \in 1..Len(applied.tracked) : applied.tracked[i] # threads[1].msg_id)
        => /\ Len(passed) <= 1
           /\ (threads[1].pc = "done" /\ threads[2].pc = "done")
                 => /\ threads[1].duplicate # threads[2].duplicate
                    /\ passed = <<threads[1].msg_id>>

\* Both threads had the unseen id 2; the second thread got False while the
\* first was told to skip.
C35_Witness ==
    /\ applied = [fn |-> "is_duplicate", tracked |-> <<1>>]
    /\ threads[1] = [pc |-> "done", msg_id |-> 2, duplicate |-> TRUE]
    /\ threads[2] = [pc |-> "done", msg_id |-> 2, duplicate |-> FALSE]
    /\ _messages = <<1, 2>>

\* C37: a profile field that holds a non-null value is never set back to
\* null by get, update_profil, update_status or update_history: it can
\* only be overwritten by another non-null value.
C37_ProfileFieldsMonotonic ==
    [][(Phone \in DOMAIN customers)
        => \A key \in DOMAIN customers[Phone].profil :
              (customers[Phone].profil[key] # NoneOf(key))
                 => (/\ key \in DOMAIN customers'[Phone].profil
                     /\ customers'[Phone].profil[key] # NoneOf(key))]_vars

\* update_profil was called with a None first name and a None date on a
\* profile that held both, and both are still there.
C37_Witness ==
    /\ turn = 3
    /\ applied = [fn |-> "update_profil", profil_data |-> [datum |-> NoDate,
                                                           uhrzeit |-> T1200]]
    /\ customers[Phone].profil.datum = GoodDate
    /\ customers[Phone].profil.uhrzeit = T1200
    /\ customers[Phone].profil.vorname = "Erika"

\* C38: the status of a customer never regresses: once it is TRIAL_BOOKED,
\* no turn of _handle_text_message sets it back to NAME_KNOWN or NEW_LEAD.
C38_StatusNeverRegresses ==
    [][(customers[Phone].status = TRIAL_BOOKED)
        => (customers'[Phone].status \notin {NAME_KNOWN, NEW_LEAD})]_vars

\* C39: _calculate_end_time returns the start advanced by duration_minutes
\* with the offset kept, over hour and day boundaries, writes +01:00 when
\* the input has no offset, and returns the input unchanged when it does
\* not match the ISO pattern.
C39_EndTimeIsStartPlusDuration ==
    applied.fn = "_calculate_end_time"
        => LET start == applied.start_datetime
               minute_of(d) == toordinal(d.date) * 1440 + d.time[1] * 60 + d.time[2]
           IN /\ ~applied.raised
              /\ start.shape \in {"iso", "isoNoTz"}
                    => /\ applied.value.shape = "iso"
                       /\ IsCalendar(applied.value.date, applied.value.time)
                       /\ minute_of(applied.value)
                              = minute_of(start) + applied.duration_minutes
              /\ start.shape \notin {"iso", "isoNoTz"} => applied.value = start

\* C40: _is_valid_name rejects every word of the context-word blacklist in
\* any case ("Emailadresse", "Email", "Termin", weekday and month names),
\* rejects names shorter than 2 or longer than 30 characters or with under
\* 80% letters, and accepts ordinary names such as "Max".
C40_ValidNameRejectsContextWords ==
    applied.fn = "_is_valid_name"
        => LET name == applied.name
               blacklisted == name.word \in {"Emailadresse", "EMAILADRESSE", "Email",
                                             "Termin", "Montag", "Januar"}
           IN /\ blacklisted => ~applied.value
              /\ (name.len < 2 \/ name.len > 30 \/ name.letters * 10 < name.len * 8)
                    => ~applied.value
              /\ name.word = "Max" => applied.value

====
